---- MODULE Spec2Model ----
(***************************************************************************)
(* DefocusedDataset (PyLorentz/dataset/defocused_dataset.py): the staged   *)
(* image-preparation pipeline over a through-focal image stack.            *)
(*                                                                         *)
(* An image is a sequence of rows of integer pixels, a stack a sequence of *)
(* images.  A numpy value is a record [kind, ndim, v]; Python's None is    *)
(* the record NoneVal.  The instance is the record `self`; `attrs` is the  *)
(* set of attributes that exist on it (what hasattr() sees).  Every method *)
(* is an operator from the instance and its arguments to the instance it   *)
(* leaves behind and the exception it raised ("ok" when it returned).      *)
(*                                                                         *)
(* `world` holds two instances next to each other, every array and list of *)
(* theirs at an address: an in-place write to an object is seen through    *)
(* every attribute bound to its address, an assignment binds a new object. *)
(* `meta` is the last call of load(), of the constructor or of the energy  *)
(* setter, with its arguments, and the metadata attributes of the dataset  *)
(* it left.                                                                *)
(***************************************************************************)
EXTENDS Integers, Naturals, Sequences, FiniteSets, TLC

VARIABLES self, last, ctor, applied, world, meta

vars == <<self, last, ctor, applied, world, meta>>

(* ------------------------------ bounds --------------------------------- *)
NumImages == 2
Side == 2
MaxPix == 4

(* ------------------------- numpy-like values --------------------------- *)
NoneVal == [kind |-> "None", ndim |-> 0, v |-> <<>>]

Stack(s) == [kind |-> "ndarray", ndim |-> 3, v |-> s]

Image2D(img) == [kind |-> "ndarray", ndim |-> 2, v |-> img]

IsNone(a) == a.kind = "None"

\* len() of a stack
PyLen(a) == Len(a.v)

\* ims[None]: a 2D image becomes a stack of one image
Promote(a) == IF a.ndim = 2 THEN Stack(<<a.v>>) ELSE a

Height(img) == Len(img)

Width(img) == IF Len(img) = 0 THEN 0 ELSE Len(img[1])

ZeroImage(h, w) == [r \in 1..h |-> [c \in 1..w |-> 0]]

\* np.zeros_like(a): same shape, all zero; of None it is a 0-d array
zeros_like(a) ==
    IF IsNone(a) THEN [kind |-> "ndarray", ndim |-> 0, v |-> <<>>]
    ELSE [a EXCEPT !.v = [i \in 1..Len(a.v) |-> ZeroImage(Height(a.v[i]), Width(a.v[i]))]]

\* a Python index (0-based, negative counts from the end) as a 1-based one
PyIndex(i, n) == IF i < 0 THEN i + n + 1 ELSE i + 1

IndexOK(i, n) == i >= 0 - n /\ i < n

AllIndexOK(indices, n) == \A k \in 1..Len(indices) : IndexOK(indices[k], n)

\* a[indices] for a stack a
Take(a, indices) == [k \in 1..Len(indices) |-> a.v[PyIndex(indices[k], Len(a.v))]]

\* numpy broadcasting of one image into a slot of shape h x w
Broadcastable(img, h, w) ==
    /\ Height(img) = h \/ Height(img) = 1
    /\ Width(img) = w \/ Width(img) = 1

BroadcastTo(img, h, w) ==
    [r \in 1..h |-> [c \in 1..w |->
        img[IF Height(img) = 1 THEN 1 ELSE r][IF Width(img) = 1 THEN 1 ELSE c]]]

\* positions of indices that address slot j; the last one wins
Writers(indices, j, n) == {k \in 1..Len(indices) : PyIndex(indices[k], n) = j}

MaxOf(S) == CHOOSE x \in S : \A y \in S : y <= x

\* a[indices] = vals can be carried out
CanPut(a, indices, vals) ==
    /\ a.ndim = 3
    /\ AllIndexOK(indices, Len(a.v))
    /\ \A k \in 1..Len(indices) :
          LET slot == a.v[PyIndex(indices[k], Len(a.v))]
          IN Broadcastable(vals[k], Height(slot), Width(slot))

\* a[indices] = vals
Put(a, indices, vals) ==
    [a EXCEPT !.v = [j \in 1..Len(a.v) |->
        IF Writers(indices, j, Len(a.v)) = {} THEN a.v[j]
        ELSE BroadcastTo(vals[MaxOf(Writers(indices, j, Len(a.v)))],
                         Height(a.v[j]), Width(a.v[j]))]]

(* ------------------------- image operations ---------------------------- *)
\* rank-(n div 2) element of a sequence of numbers (the median for odd n)
MedianOf(vals) ==
    LET n == Len(vals)
        rank == n \div 2
        less(x) == Cardinality({k \in 1..n : vals[k] < x})
        leq(x) == Cardinality({k \in 1..n : vals[k] <= x})
    IN CHOOSE x \in {vals[k] : k \in 1..n} : less(x) <= rank /\ leq(x) >= rank + 1

\* index reflected at the border of 1..n (scipy's default mode "reflect")
Reflect(k, n) == IF k < 1 THEN 1 - k ELSE IF k > n THEN 2 * n + 1 - k ELSE k

Window3(img, r, c) ==
    [k \in 1..9 |->
        img[Reflect(r - 1 + ((k - 1) \div 3), Height(img))]
           [Reflect(c - 1 + ((k - 1) % 3), Width(img))]]

\* ndi.median_filter over the two spatial axes of one image, window size x size
median_filter(img, size) ==
    IF size = 3
    THEN [r \in 1..Height(img) |-> [c \in 1..Width(img) |-> MedianOf(Window3(img, r, c))]]
    ELSE img

\* PyLorentz.utils.filter.filter_hotpix: a pixel far from the median of its
\* neighbourhood is a hot or dead pixel and is replaced by that median
filter_hotpix(img) ==
    [r \in 1..Height(img) |-> [c \in 1..Width(img) |->
        LET m == MedianOf(Window3(img, r, c))
        IN IF img[r][c] - m > 1 \/ m - img[r][c] > 1 THEN m ELSE img[r][c]]]

\* one quarter turn about the centre of the image on a canvas of the same
\* size (height and width differing by an even number): what leaves the frame
\* is lost, what enters it is zero
Rot90(img) ==
    LET h == Height(img)
        w == Width(img)
    IN [r \in 1..h |-> [c \in 1..w |->
          LET ir == c + (h - w) \div 2
              ic == (h + w) \div 2 + 1 - r
          IN IF ir \in 1..h /\ ic \in 1..w THEN img[ir][ic] ELSE 0]]

\* one quarter turn on a canvas that is resized to hold the whole image
Rot90Reshaped(img) ==
    [r \in 1..Width(img) |-> [c \in 1..Height(img) |-> img[c][Width(img) + 1 - r]]]

\* ndi.rotate(img, angle, reshape=True)
rotate_reshape(img, angle) ==
    LET q == (angle \div 90) % 4
    IN IF q = 0 THEN img
       ELSE IF q = 1 THEN Rot90Reshaped(img)
       ELSE IF q = 2 THEN Rot90Reshaped(Rot90Reshaped(img))
       ELSE Rot90Reshaped(Rot90Reshaped(Rot90Reshaped(img)))

\* ndi.rotate(img, angle, reshape=False) for multiples of 90 degrees: the
\* canvas keeps its size
rotate(img, angle) ==
    LET q == (angle \div 90) % 4
    IN IF q = 0 THEN img
       ELSE IF q = 1 THEN Rot90(img)
       ELSE IF q = 2 THEN Rot90(Rot90(img))
       ELSE Rot90(Rot90(Rot90(img)))

\* the bounds of a Python slice lo:hi on an axis of length n, as 1-based lo+1..hi
SliceLo(lo, n) == IF lo < 0 THEN (IF lo + n < 0 THEN 0 ELSE lo + n) ELSE (IF lo > n THEN n ELSE lo)

SliceHi(hi, n) == IF hi < 0 THEN (IF hi + n < 0 THEN 0 ELSE hi + n) ELSE (IF hi > n THEN n ELSE hi)

\* img[top:bottom, left:right]
crop(img, top, bottom, left, right) ==
    LET r0 == SliceLo(top, Height(img))
        r1 == SliceHi(bottom, Height(img))
        c0 == SliceLo(left, Width(img))
        c1 == SliceHi(right, Width(img))
    IN [r \in 1..(r1 - r0) |-> [c \in 1..(c1 - c0) |-> img[r0 + r][c0 + c]]]

RECURSIVE SumSeq(_)
SumSeq(s) == IF Len(s) = 0 THEN 0 ELSE s[1] + SumSeq(Tail(s))

RECURSIVE SumImage(_)
SumImage(img) == IF Len(img) = 0 THEN 0 ELSE SumSeq(img[1]) + SumImage(Tail(img))

\* mean pixel of an image (its zero-frequency component), rounded down
MeanOf(img) ==
    IF Height(img) * Width(img) = 0 THEN 0
    ELSE SumImage(img) \div (Height(img) * Width(img))

\* BaseDataset._bandpass_filter: a low-pass cutoff pulls every pixel towards
\* the image mean (harder for the Gaussian mask than for the Butterworth one
\* of the given order), a high-pass cutoff removes the image mean; with no
\* cutoff the image passes unchanged.  The result depends on the whole image,
\* so filtering and cropping do not commute.
bandpass_filter(img, q_lowpass, q_highpass, filter_type, butterworth_order) ==
    LET w == IF filter_type = "gaussian" THEN 1 ELSE butterworth_order
        mean == MeanOf(img)
        low == IF q_lowpass = "None" THEN img
               ELSE [r \in 1..Height(img) |-> [c \in 1..Width(img) |->
                        (w * img[r][c] + mean) \div (w + 1)]]
        mean_low == MeanOf(low)
    IN IF q_highpass = "None" THEN low
       ELSE [r \in 1..Height(low) |-> [c \in 1..Width(low) |-> low[r][c] - mean_low]]

(* --------------------------- the instance ------------------------------ *)
Ok(s) == [self |-> s, err |-> "ok"]

Raise(s, e) == [self |-> s, err |-> e]

NoDefvals == [kind |-> "None", v |-> <<>>]

\* an object on which no attribute has been set yet
Blank ==
    [attrs |-> {},
     images |-> NoneVal,
     orig_images |-> NoneVal,
     orig_shape |-> <<0, 0>>,
     orig_images_preprocessed |-> NoneVal,
     images_cropped |-> NoneVal,
     images_filtered |-> NoneVal,
     defvals |-> NoDefvals,
     preprocessed |-> FALSE,
     cropped |-> FALSE,
     filtered |-> FALSE,
     transforms |-> [rotation |-> 0, top |-> 0, bottom |-> 0, left |-> 0, right |-> 0],
     transforms_modified |-> FALSE,
     filters |-> [hotpix |-> FALSE, median |-> <<>>, q_lowpass |-> "None",
                  q_highpass |-> "None", filter_type |-> "None",
                  butterworth_order |-> <<>>]]

FullFrame(shape) ==
    [rotation |-> 0, top |-> 0, bottom |-> shape[1], left |-> 0, right |-> shape[2]]

\* BaseDataset.__init__: the transform parameters start as the full frame
\* without rotation, nothing recorded in the filter record
BaseDataset_init(s, imshape) ==
    [s EXCEPT !.attrs = @ \cup {"_transforms", "_filters", "_transforms_modified"},
              !.transforms = FullFrame(imshape),
              !.transforms_modified = FALSE,
              !.filters = Blank.filters]

\* BaseDataset._reset_transforms: crop box back to the full frame, rotation
\* back to zero
BaseDataset_reset_transforms(s) ==
    [s EXCEPT !.transforms = FullFrame(s.orig_shape), !.transforms_modified = TRUE]

\* BaseDataset._select_ROI: the rectangle the user draws on the preview is
\* written into the transform parameters
BaseDataset_select_ROI(s, roi) ==
    [s EXCEPT !.transforms = [@ EXCEPT !.top = roi[1], !.bottom = roi[2],
                                       !.left = roi[3], !.right = roi[4]],
              !.transforms_modified = TRUE]

\* the images setter without its length check
images_setter_unchecked(s, ims) ==
    Ok([s EXCEPT !.images = Promote(ims), !.attrs = @ \cup {"_images"}])

\* the images setter storing the value as Cropped as well
images_setter_into_cropped(s, ims) ==
    LET a == Promote(ims)
    IN IF "_defvals" \in s.attrs /\ s.defvals.kind = "None" THEN Raise(s, "TypeError")
       ELSE IF "_defvals" \in s.attrs /\ PyLen(a) # Len(s.defvals.v) THEN Raise(s, "ValueError")
       ELSE Ok([s EXCEPT !.images = a, !.images_cropped = a, !.attrs = @ \cup {"_images"}])

\* @images.setter
images_setter(s, ims) ==
    LET a == Promote(ims)
    IN IF "_defvals" \in s.attrs /\ s.defvals.kind = "None" THEN Raise(s, "TypeError")
       ELSE IF "_defvals" \in s.attrs /\ PyLen(a) # Len(s.defvals.v) THEN Raise(s, "ValueError")
       ELSE Ok([s EXCEPT !.images = a, !.attrs = @ \cup {"_images"}])

\* the defvals setter storing the value before it checks the length
defvals_setter_store_first(s, dfs) ==
    LET d == IF dfs.kind = "scalar" THEN [kind |-> "array", v |-> dfs.v] ELSE dfs
        stored == [s EXCEPT !.defvals = d, !.attrs = @ \cup {"_defvals"}]
    IN IF "_images" \in s.attrs /\ d.kind = "None" THEN Raise(stored, "TypeError")
       ELSE IF "_images" \in s.attrs /\ Len(d.v) # PyLen(s.images)
            THEN Raise(stored, "ValueError")
       ELSE Ok(stored)

\* the defvals setter taking the length of a scalar as it is
defvals_setter_no_promotion(s, dfs) ==
    IF "_images" \in s.attrs /\ dfs.kind \in {"None", "scalar"} THEN Raise(s, "TypeError")
    ELSE IF "_images" \in s.attrs /\ Len(dfs.v) # PyLen(s.images) THEN Raise(s, "ValueError")
    ELSE Ok([s EXCEPT !.defvals = dfs, !.attrs = @ \cup {"_defvals"}])

\* the defvals setter without its length check
defvals_setter_unchecked(s, dfs) ==
    LET d == IF dfs.kind = "scalar" THEN [kind |-> "array", v |-> dfs.v] ELSE dfs
    IN IF "_images" \in s.attrs /\ d.kind = "None" THEN Raise(s, "TypeError")
       ELSE Ok([s EXCEPT !.defvals = d, !.attrs = @ \cup {"_defvals"}])

\* the defvals setter storing None without asking for its length
defvals_setter_none_stored(s, dfs) ==
    LET d == IF dfs.kind = "scalar" THEN [kind |-> "array", v |-> dfs.v] ELSE dfs
    IN IF d.kind = "None" THEN Ok([s EXCEPT !.defvals = d, !.attrs = @ \cup {"_defvals"}])
       ELSE IF "_images" \in s.attrs /\ Len(d.v) # PyLen(s.images) THEN Raise(s, "ValueError")
       ELSE Ok([s EXCEPT !.defvals = d, !.attrs = @ \cup {"_defvals"}])

\* @defvals.setter
defvals_setter(s, dfs) ==
    LET d == IF dfs.kind = "scalar" THEN [kind |-> "array", v |-> dfs.v] ELSE dfs
    IN IF "_images" \in s.attrs /\ d.kind = "None" THEN Raise(s, "TypeError")
       ELSE IF "_images" \in s.attrs /\ Len(d.v) # PyLen(s.images) THEN Raise(s, "ValueError")
       ELSE Ok([s EXCEPT !.defvals = d, !.attrs = @ \cup {"_defvals"}])

ShapeOf(a) == IF PyLen(a) = 0 THEN <<0, 0>> ELSE <<Height(a.v[1]), Width(a.v[1])>>

\* DefocusedDataset.__init__(images, defvals=...)
DefocusedDataset_init(images, defvals) ==
    LET ims == Promote(images)
        s0 == BaseDataset_init(Blank, ShapeOf(ims))
        s1 == images_setter(s0, ims).self
        s2 == [s1 EXCEPT !.orig_images = ims,
                         !.orig_shape = ShapeOf(ims),
                         !.orig_images_preprocessed = NoneVal,
                         !.images_cropped = NoneVal,
                         !.images_filtered = NoneVal,
                         !.attrs = @ \cup {"_orig_images", "_orig_shape",
                                           "_orig_images_preprocessed",
                                           "_images_cropped", "_images_filtered"}]
        r3 == defvals_setter(s2, defvals)
    IN IF r3.err # "ok" THEN r3
       ELSE Ok([r3.self EXCEPT !.preprocessed = FALSE, !.cropped = FALSE,
                               !.filtered = FALSE,
                               !.attrs = @ \cup {"beam_energy", "_simulated", "_verbose",
                                                 "mask", "_preprocessed", "_cropped",
                                                 "_filtered"}])

MapStack(a, F(_)) == [a EXCEPT !.v = [i \in 1..Len(a.v) |-> F(a.v[i])]]

\* the recorded filter applied to one image
Refilter(s, img) ==
    bandpass_filter(img, s.filters.q_lowpass, s.filters.q_highpass,
                    s.filters.filter_type, s.filters.butterworth_order[1])

\* lines 238-250 of apply_transforms: rotate, then crop, the base stack
RotateCrop(base, t) ==
    LET rot(img) == IF t.rotation # 0 THEN rotate(img, t.rotation) ELSE img
        cut(img) == crop(rot(img), t.top, t.bottom, t.left, t.right)
    IN MapStack(base, cut)

\* the transform stage starting from Raw even after preprocessing
TransformBase_raw(s) == s.orig_images

\* the transform stage starting from Current View
TransformBase_view(s) == s.images

\* lines 238-241 of apply_transforms: the stack the transform stage starts from
TransformBase(s) ==
    IF s.preprocessed THEN s.orig_images_preprocessed ELSE s.orig_images

\* apply_transforms without the replay of the recorded filter
apply_transforms_stale(s) ==
    LET images == RotateCrop(TransformBase(s), s.transforms)
        r == images_setter([s EXCEPT !.images_cropped = images], images)
    IN IF r.err # "ok" THEN r
       ELSE Ok([r.self EXCEPT !.transforms_modified = FALSE, !.cropped = TRUE])

\* apply_transforms replaying the recorded filter on the last image only
apply_transforms_replay_last(s) ==
    LET base == TransformBase(s)
        images == RotateCrop(base, s.transforms)
        s1 == [s EXCEPT !.images_cropped = images]
        filt == [images EXCEPT !.v = [i \in 1..Len(images.v) |->
                                         IF i = Len(images.v) THEN Refilter(s, images.v[i])
                                         ELSE images.v[i]]]
        s2 == IF s.filtered THEN [s1 EXCEPT !.images_filtered = filt] ELSE s1
        r3 == images_setter(s2, IF s.filtered THEN filt ELSE images)
    IN IF r3.err # "ok" THEN r3
       ELSE Ok([r3.self EXCEPT !.transforms_modified = FALSE, !.cropped = TRUE])

\* DefocusedDataset.apply_transforms()
apply_transforms(s) ==
    LET base == TransformBase(s)
        images == RotateCrop(base, s.transforms)
        s1 == [s EXCEPT !.images_cropped = images]
        again(img) == Refilter(s, img)
        filt == MapStack(images, again)
        s2 == IF s.filtered THEN [s1 EXCEPT !.images_filtered = filt] ELSE s1
        r3 == images_setter(s2, IF s.filtered THEN filt ELSE images)
    IN IF r3.err # "ok" THEN r3
       ELSE Ok([r3.self EXCEPT !.transforms_modified = FALSE, !.cropped = TRUE])

\* the hot-pixel loop writing through to the raw stack as well
HotpixLoop_shared(s, hotpix) ==
    IF hotpix
    THEN [s EXCEPT !.images = MapStack(@, filter_hotpix),
                   !.orig_images = MapStack(s.images, filter_hotpix)]
    ELSE s

\* the hot-pixel loop writing the result for image i into the slot after it
HotpixLoop_shifted(s, hotpix) ==
    IF hotpix
    THEN [s EXCEPT !.images = Stack([k \in 1..PyLen(s.images) |->
                                  filter_hotpix(s.images.v[(k % PyLen(s.images)) + 1])])]
    ELSE s

\* lines 286-289 of preprocess: the hot-pixel loop writes into Current View
HotpixLoop(s, hotpix) ==
    IF hotpix THEN [s EXCEPT !.images = MapStack(@, filter_hotpix)] ELSE s

\* preprocess starting from the previous Preprocessed stack when there is one
preprocess_compounding(s, hotpix, median_filter_size) ==
    LET start == IF s.preprocessed THEN s.orig_images_preprocessed ELSE s.orig_images
        r1 == images_setter(s, start)
        s2 == HotpixLoop(r1.self, hotpix)
        med(img) == median_filter(img, median_filter_size[1])
        r3 == IF median_filter_size # <<>>
              THEN images_setter(s2, MapStack(s2.images, med))
              ELSE Ok(s2)
        s4 == [r3.self EXCEPT !.preprocessed = TRUE,
                              !.orig_images_preprocessed = r3.self.images]
        r5 == apply_transforms(s4)
    IN IF r1.err # "ok" THEN r1
       ELSE IF r3.err # "ok" THEN r3
       ELSE IF r5.err # "ok" THEN r5
       ELSE Ok([r5.self EXCEPT !.filters = [@ EXCEPT !.hotpix = hotpix,
                                                     !.median = median_filter_size]])

\* preprocess without the re-run of the transform stage
preprocess_stale_crop(s, hotpix, median_filter_size) ==
    LET r1 == images_setter(s, s.orig_images)
        s2 == HotpixLoop(r1.self, hotpix)
        med(img) == median_filter(img, median_filter_size[1])
        r3 == IF median_filter_size # <<>>
              THEN images_setter(s2, MapStack(s2.images, med))
              ELSE Ok(s2)
        s4 == [r3.self EXCEPT !.preprocessed = TRUE,
                              !.orig_images_preprocessed = r3.self.images]
    IN IF r1.err # "ok" THEN r1
       ELSE IF r3.err # "ok" THEN r3
       ELSE Ok([s4 EXCEPT !.filters = [@ EXCEPT !.hotpix = hotpix,
                                                !.median = median_filter_size]])

\* DefocusedDataset.preprocess(hotpix, median_filter_size)
preprocess(s, hotpix, median_filter_size) ==
    LET r1 == images_setter(s, s.orig_images)
        s2 == HotpixLoop(r1.self, hotpix)
        med(img) == median_filter(img, median_filter_size[1])
        r3 == IF median_filter_size # <<>>
              THEN images_setter(s2, MapStack(s2.images, med))
              ELSE Ok(s2)
        s4 == [r3.self EXCEPT !.preprocessed = TRUE,
                              !.orig_images_preprocessed = r3.self.images]
        r5 == apply_transforms(s4)
    IN IF r1.err # "ok" THEN r1
       ELSE IF r3.err # "ok" THEN r3
       ELSE IF r5.err # "ok" THEN r5
       ELSE Ok([r5.self EXCEPT !.filters = [@ EXCEPT !.hotpix = hotpix,
                                                     !.median = median_filter_size]])

\* reset_transforms without the re-run of the transform stage
reset_transforms_params_only(s) == Ok(BaseDataset_reset_transforms(s))

\* reset_transforms marking the dataset as not cropped instead of re-running
\* the transform stage
reset_transforms_uncrop(s) ==
    Ok([BaseDataset_reset_transforms(s) EXCEPT !.cropped = FALSE])

\* reset_transforms discarding the filter: flag cleared, Filtered dropped
reset_transforms_discard(s) ==
    apply_transforms([BaseDataset_reset_transforms(s) EXCEPT !.filtered = FALSE,
                                                             !.images_filtered = NoneVal])

\* DefocusedDataset.reset_transforms()
reset_transforms(s) == apply_transforms(BaseDataset_reset_transforms(s))

\* lines 378-387 of filter: the indices idx selects; idx is None, an int, a
\* list of ints, or something else
NoIdx == [kind |-> "None", v |-> <<>>]

IntIdx(i) == [kind |-> "int", v |-> <<i>>]

ListIdx(l) == [kind |-> "list", v |-> l]

OtherIdx == [kind |-> "other", v |-> <<>>]

Indices(s, idx) ==
    IF idx.kind = "None" THEN [k \in 1..PyLen(s.images) |-> k - 1] ELSE idx.v

\* filter reading its input from Current View
FilterInput_view(s) == s.images

\* filter reading its input from Filtered once a Filtered stack exists
FilterInput_filtered(s) ==
    IF s.filtered /\ s.images_filtered.ndim = 3 THEN s.images_filtered
    ELSE IF s.cropped THEN s.images_cropped
    ELSE IF s.preprocessed THEN s.orig_images_preprocessed
    ELSE s.orig_images

\* lines 389-394 of filter: the stack the input images are read from
FilterInput(s) ==
    IF s.cropped THEN s.images_cropped
    ELSE IF s.preprocessed THEN s.orig_images_preprocessed
    ELSE s.orig_images

\* the commit of filter without the write into Current View
FilterCommit_no_view(s, p, indices, filtered_ims) ==
    LET s1 == [s EXCEPT !.filtered = TRUE,
                        !.filters = [@ EXCEPT !.q_lowpass = p.q_lowpass,
                                              !.q_highpass = p.q_highpass,
                                              !.filter_type = p.filter_type,
                                              !.butterworth_order = <<p.butterworth_order>>]]
        s2 == IF IsNone(s1.images_filtered)
              THEN [s1 EXCEPT !.images_filtered = zeros_like(s1.images_cropped)]
              ELSE s1
    IN IF s2.images_filtered.ndim # 3 THEN Raise(s2, "IndexError")
       ELSE IF ~CanPut(s2.images_filtered, indices, filtered_ims) THEN Raise(s2, "ValueError")
       ELSE Ok([s2 EXCEPT !.images_filtered = Put(@, indices, filtered_ims)])

\* the commit of filter allocating a new zero stack on every call
FilterCommit_realloc(s, p, indices, filtered_ims) ==
    LET s1 == [s EXCEPT !.filtered = TRUE,
                        !.filters = [@ EXCEPT !.q_lowpass = p.q_lowpass,
                                              !.q_highpass = p.q_highpass,
                                              !.filter_type = p.filter_type,
                                              !.butterworth_order = <<p.butterworth_order>>]]
        s2 == [s1 EXCEPT !.images_filtered = zeros_like(s1.images_cropped)]
        s3 == [s2 EXCEPT !.images_filtered = Put(@, indices, filtered_ims)]
        s4 == [s3 EXCEPT !.images = Put(@, indices, filtered_ims)]
    IN IF s2.images_filtered.ndim # 3 THEN Raise(s2, "IndexError")
       ELSE IF ~CanPut(s2.images_filtered, indices, filtered_ims) THEN Raise(s2, "ValueError")
       ELSE IF ~CanPut(s3.images, indices, filtered_ims) THEN Raise(s3, "ValueError")
       ELSE Ok(s4)

\* lines 427-436 of filter: record the call, then write the selected indices
\* of Filtered and of Current View
FilterCommit(s, p, indices, filtered_ims) ==
    LET s1 == [s EXCEPT !.filtered = TRUE,
                        !.filters = [@ EXCEPT !.q_lowpass = p.q_lowpass,
                                              !.q_highpass = p.q_highpass,
                                              !.filter_type = p.filter_type,
                                              !.butterworth_order = <<p.butterworth_order>>]]
        s2 == IF IsNone(s1.images_filtered)
              THEN [s1 EXCEPT !.images_filtered = zeros_like(s1.images_cropped)]
              ELSE s1
        s3 == [s2 EXCEPT !.images_filtered = Put(@, indices, filtered_ims)]
        s4 == [s3 EXCEPT !.images = Put(@, indices, filtered_ims)]
    IN IF s2.images_filtered.ndim # 3 THEN Raise(s2, "IndexError")
       ELSE IF ~CanPut(s2.images_filtered, indices, filtered_ims) THEN Raise(s2, "ValueError")
       ELSE IF ~CanPut(s3.images, indices, filtered_ims) THEN Raise(s3, "ValueError")
       ELSE Ok(s4)

\* filter checking the type of idx only after the commit
filter_type_check_last(s, p, idx) ==
    LET indices == Indices(s, idx)
        input == FilterInput(s)
        one(img) == bandpass_filter(img, p.q_lowpass, p.q_highpass, p.filter_type,
                                    p.butterworth_order)
        filtered_ims == [k \in 1..Len(indices) |-> one(Take(input, indices)[k])]
        r == FilterCommit(s, p, indices, filtered_ims)
    IN IF ~AllIndexOK(indices, PyLen(input)) THEN Raise(s, "IndexError")
       ELSE IF idx.kind = "other" THEN Raise(r.self, "TypeError")
       ELSE r

\* plt.subplots(nrows=nrows, ...): a grid of no rows is rejected
subplots(nrows) == IF nrows <= 0 THEN "ValueError" ELSE "ok"

\* DefocusedDataset.filter(q_lowpass, q_highpass, filter_type, butterworth_order,
\* idx, show); with show the comparison figure of the selected images is drawn
\* from copies (lines 402-425) before the commit
filter(s, p, idx) ==
    LET indices == Indices(s, idx)
        input == FilterInput(s)
        one(img) == bandpass_filter(img, p.q_lowpass, p.q_highpass, p.filter_type,
                                    p.butterworth_order)
        filtered_ims == [k \in 1..Len(indices) |-> one(Take(input, indices)[k])]
    IN IF idx.kind = "other" THEN Raise(s, "TypeError")
       ELSE IF ~AllIndexOK(indices, PyLen(input)) THEN Raise(s, "IndexError")
       ELSE IF p.show /\ subplots(Len(indices)) # "ok" THEN Raise(s, "ValueError")
       ELSE FilterCommit(s, p, indices, filtered_ims)

\* PyLorentz.visualize.show_im: draws the image and leaves the array it is
\* given as it is
visualize_show_im(img) == img

\* DefocusedDataset.show_im(idx): the label is read from defvals[idx], the
\* image drawn is Current View[idx]
show_im(s, idx) ==
    IF ~IndexOK(idx, Len(s.defvals.v)) \/ ~IndexOK(idx, PyLen(s.images))
    THEN Raise(s, "IndexError")
    ELSE Ok([s EXCEPT !.images.v[PyIndex(idx, PyLen(s.images))] = visualize_show_im(@)])

\* DefocusedDataset.show_all(): one image through show_im, more than one in a
\* row of subplots
show_all(s) ==
    IF PyLen(s.images) = 1 THEN show_im(s, 0)
    ELSE IF subplots(1) # "ok" THEN Raise(s, "ValueError")
    ELSE IF Len(s.defvals.v) > PyLen(s.images) THEN Raise(s, "IndexError")
    ELSE Ok([s EXCEPT !.images.v = [i \in 1..Len(@) |->
                                        IF i <= Len(s.defvals.v) THEN visualize_show_im(@[i])
                                        ELSE @[i]]])

NoImage == [kind |-> "None", ndim |-> 0, v |-> <<>>]

\* the preview taken from Current View
ROIPreview_view(s, idx, image) ==
    IF ~IsNone(image) THEN image.v ELSE s.images.v[PyIndex(idx, PyLen(s.images))]

\* lines 210-230 of select_ROI: the preview handed to the ROI primitive
ROIPreview(s, idx, image) ==
    LET src == IF s.preprocessed THEN s.orig_images_preprocessed ELSE s.orig_images
        img == src.v[PyIndex(idx, PyLen(src))]
    IN IF ~IsNone(image) THEN image.v
       ELSE IF s.filtered THEN Refilter(s, img)
       ELSE img

\* select_ROI running the transform stage on the rectangle it stored
select_ROI_applying(s, idx, image, roi) ==
    IF ~IsNone(image) /\ <<Height(image.v), Width(image.v)>> # s.orig_shape
    THEN Raise(s, "ValueError")
    ELSE IF IsNone(image) /\ ~IndexOK(idx, PyLen(s.orig_images)) THEN Raise(s, "IndexError")
    ELSE apply_transforms(BaseDataset_select_ROI(s, roi))

\* select_ROI comparing the image with the shape of Current View
select_ROI_view_shape(s, idx, image, roi) ==
    IF ~IsNone(image) /\ <<Height(image.v), Width(image.v)>> # ShapeOf(s.images)
    THEN Raise(s, "ValueError")
    ELSE IF IsNone(image) /\ ~IndexOK(idx, PyLen(s.orig_images)) THEN Raise(s, "IndexError")
    ELSE Ok(BaseDataset_select_ROI(s, roi))

\* DefocusedDataset.select_ROI(idx, image); roi is the rectangle the user draws
select_ROI(s, idx, image, roi) ==
    IF ~IsNone(image) /\ <<Height(image.v), Width(image.v)>> # s.orig_shape
    THEN Raise(s, "ValueError")
    ELSE IF IsNone(image) /\ ~IndexOK(idx, PyLen(s.orig_images)) THEN Raise(s, "IndexError")
    ELSE Ok(BaseDataset_select_ROI(s, roi))

\* copy.deepcopy of one array: a new array with the same contents
CopyArray(a) == [kind |-> a.kind, ndim |-> a.ndim, v |-> [i \in 1..Len(a.v) |-> a.v[i]]]

\* DefocusedDataset.copy()
copy(s) ==
    [s EXCEPT !.images = CopyArray(s.images),
              !.orig_images = CopyArray(s.orig_images),
              !.orig_images_preprocessed = CopyArray(s.orig_images_preprocessed),
              !.images_cropped = CopyArray(s.images_cropped),
              !.images_filtered = CopyArray(s.images_filtered)]

(* ------------------- two instances, objects at addresses --------------- *)
\* a path is the sequence of its components
Absolute(path) == IF path[1] = "/" THEN path ELSE <<"/", "cwd">> \o path

Parent(path) == SubSeq(path, 1, Len(path) - 1)

\* the address of None, of the list `[]` of the constructor's signature (one
\* object, made when the function is defined), and of a defocus-value array the
\* caller keeps
NoObject == 0

DefaultFilesAddr == 1

CallerDefvalsAddr == 2

ArrayFields ==
    {"images", "orig_images", "orig_images_preprocessed", "images_cropped",
     "images_filtered", "defvals"}

ArrayFieldSeq ==
    <<"images", "orig_images", "orig_images_preprocessed", "images_cropped",
      "images_filtered", "defvals">>

ObjectFields == ArrayFields \cup {"data_files", "data_dirs"}

ObjectFieldSeq == ArrayFieldSeq \o <<"data_files", "data_dirs">>

NoRefs == [f \in ObjectFields |-> NoObject]

NoInstance == [s |-> Blank, data_files |-> <<>>, data_dirs |-> <<>>, ref |-> NoRefs]

Get(d, f) ==
    IF f = "data_files" THEN d.data_files
    ELSE IF f = "data_dirs" THEN d.data_dirs
    ELSE d.s[f]

\* the address at which the objects made for attribute f of instance i are
\* put as long as no other attribute is bound to it
HomeAddr(i, f) ==
    CallerDefvalsAddr + (i - 1) * Len(ObjectFieldSeq)
        + CHOOSE k \in 1..Len(ObjectFieldSeq) : ObjectFieldSeq[k] = f

\* an address no attribute other than attribute f of instance i is bound to
NewAddr(w, i, f) ==
    LET used == {w.ds[jg[1]].ref[jg[2]] : jg \in ((1..2) \X ObjectFields) \ {<<i, f>>}}
        spare == HomeAddr(2, ObjectFieldSeq[Len(ObjectFieldSeq)])
        turn == CHOOSE k \in 0..2 :
                    /\ HomeAddr(i, f) + k * spare \notin used
                    /\ \A m \in 0..(k - 1) : HomeAddr(i, f) + m * spare \in used
    IN HomeAddr(i, f) + turn * spare

\* the address of a new object holding v (None is no object)
AddrFor(w, i, f, v) ==
    IF f \in ArrayFields /\ v.kind = "None" THEN NoObject ELSE NewAddr(w, i, f)

\* instance i sets the attributes in the domain of vals: those in the domain
\* of addrs are assigned (bound to the object at the address given), the
\* others are written in place, and every attribute bound to a written object
\* shows the new value
Store(w, i, vals, addrs) ==
    LET written == DOMAIN vals \ DOMAIN addrs
        hits(ref) == {f \in written : ref # NoObject /\ w.ds[i].ref[f] = ref}
        shown(ref, old) == IF hits(ref) = {} THEN old ELSE vals[CHOOSE f \in hits(ref) : TRUE]
        value(j, g) == IF j = i /\ g \in DOMAIN vals THEN vals[g]
                       ELSE shown(w.ds[j].ref[g], Get(w.ds[j], g))
        inst(j) ==
            [s |-> [w.ds[j].s EXCEPT
                       !.images = value(j, "images"),
                       !.orig_images = value(j, "orig_images"),
                       !.orig_images_preprocessed = value(j, "orig_images_preprocessed"),
                       !.images_cropped = value(j, "images_cropped"),
                       !.images_filtered = value(j, "images_filtered"),
                       !.defvals = value(j, "defvals")],
             data_files |-> value(j, "data_files"),
             data_dirs |-> value(j, "data_dirs"),
             ref |-> [g \in ObjectFields |->
                         IF j = i /\ g \in DOMAIN addrs THEN addrs[g] ELSE w.ds[j].ref[g]]]
    IN [w EXCEPT !.ds = <<inst(1), inst(2)>>,
                 !.default_files = shown(DefaultFilesAddr, @),
                 !.caller_defvals = shown(CallerDefvalsAddr, @)]

\* what a method of instance i that leaves the instance s2 does to the world:
\* the attributes it assigns are bound to new arrays, the others are written
\* in place where their value changed
MethodEffect(w, i, s2, assigned) ==
    LET changed == {f \in ArrayFields : f \in assigned \/ s2[f] # w.ds[i].s[f]}
        w1 == Store(w, i, [f \in changed |-> s2[f]],
                    [f \in assigned |-> AddrFor(w, i, f, s2[f])])
    IN [w1 EXCEPT !.ds[i].s = [s2 EXCEPT !.images = w1.ds[i].s.images]]

\* the attributes filter assigns (line 434); lines 435-436 write in place
FilterAssigns(s) == IF IsNone(s.images_filtered) THEN {"images_filtered"} ELSE {}

\* the attributes preprocess assigns (lines 284, 294, 297 and apply_transforms)
PreprocessAssigns(s) ==
    {"images", "orig_images_preprocessed", "images_cropped"}
        \cup (IF s.filtered THEN {"images_filtered"} ELSE {})

\* lines 47-55 of __init__: a non-empty list of paths becomes a new list of
\* absolute paths; an empty list is kept as the object it is.  The result is
\* <<data_files, its address, data_dirs>>; an argument at address NoObject is
\* an object made for the call
DataFilesInit(w, i, addr, files) ==
    LET abs == [k \in 1..Len(files) |-> Absolute(files[k])]
    IN IF Len(files) > 0
       THEN <<abs, NewAddr(w, i, "data_files"), [k \in 1..Len(abs) |-> Parent(abs[k])]>>
       ELSE <<files, IF addr = NoObject THEN NewAddr(w, i, "data_files") ELSE addr,
              <<<<"None">>>>>>

\* DefocusedDataset.__init__ leaving the attributes s2 on instance i: images
\* and Raw are new arrays (lines 42, 64-65), defvals is the object passed (line
\* 70 and the setter)
InitAt(w, i, s2, dv_addr, files_addr, files) ==
    LET df == DataFilesInit(w, i, files_addr, files)
        vals == [f \in ObjectFields |->
                    IF f = "data_files" THEN df[1]
                    ELSE IF f = "data_dirs" THEN df[3]
                    ELSE s2[f]]
        addrs == [f \in ObjectFields |->
                     IF f = "data_files" THEN df[2]
                     ELSE IF f = "defvals" /\ dv_addr # NoObject THEN dv_addr
                     ELSE AddrFor(w, i, f, vals[f])]
        w1 == Store(w, i, vals, addrs)
    IN [w1 EXCEPT !.ds[i].s = s2]

\* copy.copy in the place of copy.deepcopy: the attributes of the copy are
\* bound to the objects of the original
deepcopy_shallow(w, i, j) == [w EXCEPT !.ds[j] = w.ds[i]]

\* copy.deepcopy(self) into instance j: equal values, a new object for every
\* object of the original (one for the attributes bound to the same object)
deepcopy(w, i, j) ==
    LET first(g) == ObjectFieldSeq[CHOOSE k \in 1..Len(ObjectFieldSeq) :
                        /\ w.ds[i].ref[ObjectFieldSeq[k]] = w.ds[i].ref[g]
                        /\ \A m \in 1..(k - 1) :
                              w.ds[i].ref[ObjectFieldSeq[m]] # w.ds[i].ref[g]]
    IN [w EXCEPT !.ds[j] =
           [w.ds[i] EXCEPT !.ref = [g \in ObjectFields |->
                IF w.ds[i].ref[g] = NoObject THEN NoObject
                ELSE NewAddr(w, j, first(g))]]]

(* ----------------------- load() and the metadata ----------------------- *)
\* a metadata value with the source it came from: a keyword argument ("kw"),
\* the metadata argument ("md"), the metadata embedded in the image file
\* ("fm"), or the default of a lookup
Entry(val, from) == [val |-> val, from |-> from]

NoValue == [kind |-> "None", v |-> <<>>]

Number(x) == [kind |-> "num", v |-> <<x>>]

\* dict.get(key, default) and kwargs.pop(key, default)
DictGet(d, key, default) == IF key \in DOMAIN d THEN d[key] ELSE default

\* a | b: the values of b take precedence
Merge(a, b) == [k \in DOMAIN a \cup DOMAIN b |-> IF k \in DOMAIN b THEN b[k] ELSE a[k]]

\* BaseDataset._parse_mdata: the dict itself, or the dict read from the JSON file
parse_mdata(metadata) == metadata.dict

\* the order of the checks of load raising the missing-defvals error first
LoadFailure_defvals_first(images, defvals) ==
    IF defvals.val.kind = "None" THEN "ValueError: defvals must be specified"
    ELSE IF images = "path_list" THEN "NotImplementedError"
    ELSE "ok"

\* lines 109-113 and 131-133 of load: a list of paths is not implemented, and
\* defvals resolved to None is an error
LoadFailure(images, defvals) ==
    IF images = "path_list" THEN "NotImplementedError"
    ELSE IF defvals.val.kind = "None" THEN "ValueError: defvals must be specified"
    ELSE "ok"

NoDataset == [attrs |-> {}, defvals |-> Entry(NoValue, "none"), scale |-> Entry(NoValue, "none"),
              beam_energy |-> Entry(NoValue, "none"), energy |-> NoValue,
              data_files |-> Entry(NoValue, "none"), simulated |-> Entry(NoValue, "none")]

\* lines 47-55 of __init__ on the value of data_files
FilesAttr(val) ==
    IF val.kind = "list" /\ Len(val.v) > 0
    THEN [val EXCEPT !.v = [k \in 1..Len(val.v) |-> Absolute(val.v[k])]]
    ELSE IF val.kind = "path" THEN [kind |-> "list", v |-> <<Absolute(val.v)>>]
    ELSE val

\* __init__ as far as the metadata attributes go: defvals through its setter
\* (line 70), beam_energy as a plain attribute (line 71)
MetaInit(images, scale, defvals, beam_energy, data_files, simulated) ==
    LET r == DefocusedDataset_init(images, defvals.val)
    IN IF r.err # "ok" THEN [ds |-> NoDataset, err |-> r.err]
       ELSE [ds |-> [attrs |-> {"_defvals", "beam_energy", "_simulated", "data_files"},
                     defvals |-> Entry(r.self.defvals, defvals.from),
                     scale |-> scale,
                     beam_energy |-> beam_energy,
                     energy |-> NoValue,
                     data_files |-> Entry(FilesAttr(data_files.val), data_files.from),
                     simulated |-> simulated],
             err |-> "ok"]

\* the energy setter (lines 194-200)
energy_setter(ds, val) ==
    IF val.kind # "num" THEN [ds |-> ds, err |-> "TypeError"]
    ELSE IF val.v[1] <= 0 THEN [ds |-> ds, err |-> "ValueError"]
    ELSE [ds |-> [ds EXCEPT !.energy = val, !.attrs = @ \cup {"_beam_energy"}], err |-> "ok"]

\* DefocusedDataset.load(images, metadata, **kwargs); images is "array",
\* "path" or "path_list", stack the image data (passed, or read from the
\* file), embedded the metadata read_image finds in the file
load(images, stack, metadata, embedded, kwargs) ==
    LET mdata == IF images = "path"
                 THEN (IF metadata.kind = "None" THEN embedded
                       ELSE Merge(embedded, parse_mdata(metadata)))
                 ELSE (IF metadata.kind = "None" THEN <<>> ELSE parse_mdata(metadata))
        none == Entry(NoValue, "default")
        defvals == DictGet(kwargs, "defvals", DictGet(mdata, "defocus_values", none))
        filepaths == DictGet(mdata, "data_files", DictGet(mdata, "filepath", none))
        failure == LoadFailure(images, defvals)
    IN IF failure # "ok" THEN [ds |-> NoDataset, err |-> failure]
       ELSE MetaInit(stack,
                     DictGet(kwargs, "scale", DictGet(mdata, "scale", none)),
                     defvals,
                     DictGet(kwargs, "beam_energy", DictGet(mdata, "beam_energy", none)),
                     DictGet(kwargs, "data_files", filepaths),
                     DictGet(kwargs, "simulated",
                             DictGet(mdata, "simulated",
                                     Entry([kind |-> "bool", v |-> <<FALSE>>], "default"))))

(* ------------------------- inputs of the calls ------------------------- *)
\* pixel (r, c) of image i of the raw stack: image 1 is dim with one saturated
\* pixel, the others are gradients
RawPixel(i, r, c) ==
    IF i = 1
    THEN (IF r = 1 /\ c = 1 THEN MaxPix ELSE IF r = Side /\ c = Side THEN 0 ELSE 1)
    ELSE (r + c * i) % (MaxPix + 1)

RawImage(i) == [r \in 1..Side |-> [c \in 1..Side |-> RawPixel(i, r, c)]]

RawStack(n) == Stack([i \in 1..n |-> RawImage(i)])

FlatStack(n, side) == Stack([i \in 1..n |-> [r \in 1..side |-> [c \in 1..side |-> MaxPix]]])

\* images argument of the constructor
CtorImages == {RawStack(NumImages)}

\* an image that is not square: Side rows, Side + 2 columns
WideImage(i) == [r \in 1..Side |-> [c \in 1..(Side + 2) |-> (r + c * i) % (MaxPix + 1)]]

\* images argument of the constructor for the shape claims: one 2D image, or
\* a stack, of images that are not square
ShapedImages == {Image2D(WideImage(1)), Stack([i \in 1..NumImages |-> WideImage(i)])}

\* values assigned to images: stacks of right and wrong lengths, one 2D image
AssignImages ==
    {FlatStack(n, Side) : n \in (NumImages - 1)..(NumImages + 1)}
        \cup {Image2D(RawImage(1))}

Ramp(n) == [kind |-> "array", v |-> [k \in 1..n |-> 10 * k - 20]]

\* defocus values: None, one scalar, sequences of right and wrong lengths
DefvalChoices ==
    {NoDefvals, [kind |-> "scalar", v |-> <<0>>]}
        \cup {Ramp(n) : n \in (NumImages - 1)..(NumImages + 1)}

Rotations == {0, 90}

\* crop rectangles <<top, bottom, left, right>>
Boxes == {<<0, Side, 0, Side>>, <<0, Side, 1, Side>>}

\* filter arguments: a Butterworth low pass
FilterChoices ==
    {[q_lowpass |-> "0.1", q_highpass |-> "None", filter_type |-> "butterworth",
      butterworth_order |-> 2, show |-> FALSE]}

\* filter arguments of the replays: a Gaussian band pass as well
ReplayFilterChoices ==
    FilterChoices \cup
        {[q_lowpass |-> "0.1", q_highpass |-> "0.01", filter_type |-> "gaussian",
          butterworth_order |-> 2, show |-> FALSE]}

IdxChoices ==
    {NoIdx, OtherIdx, ListIdx(<<0, NumImages - 1>>), IntIdx(0 - 1), IntIdx(NumImages)}

\* idx of the filter calls that may draw: the empty list as well
DisplayIdxChoices == {NoIdx, ListIdx(<<>>), IntIdx(0 - 1), IntIdx(NumImages)}

\* idx of show_im: the first image, the last one, one past the end
ShowIdxChoices == {0, 0 - 1, NumImages}

\* preprocess arguments <<hotpix, median_filter_size>>
PreprocessChoices == {<<TRUE, <<>>>>, <<FALSE, <<3>>>>}

\* select_ROI arguments <<idx, image>>: a preview by index (in and out of
\* range), an image of the original shape, an image of the shape the smaller
\* crop box leaves
ROIChoices ==
    {<<0, NoImage>>, <<NumImages, NoImage>>, <<0, Image2D(RawImage(2))>>,
     <<0, Image2D(ZeroImage(Side, Side - 1))>>}

\* data_files argument of the constructor: left out, or a list of one
\* relative path
FilesChoices == {<<>>, <<<<"a.tif">>>>}

\* the path a user appends to data_files
AppendedFile == <<"b.tif">>

\* the defvals argument: the array the caller keeps, or an array made for the call
DefvalsFrom == {"caller", "call"}

\* the value a metadata source holds under a key
ValueOf(key) ==
    IF key \in {"defvals", "defocus_values"} THEN Ramp(NumImages)
    ELSE IF key = "scale" THEN Number(1)
    ELSE IF key = "beam_energy" THEN Number(200)
    ELSE IF key = "data_files" THEN [kind |-> "list", v |-> <<<<"a.tif">>>>]
    ELSE IF key = "filepath" THEN [kind |-> "path", v |-> <<"a.tif">>]
    ELSE [kind |-> "bool", v |-> <<TRUE>>]

DictOf(keys, from) == [k \in keys |-> Entry(ValueOf(k), from)]

\* keyword arguments of load: none, defvals, defvals=None, the other fields,
\* all fields
KwargsChoices ==
    {DictOf(keys, "kw") : keys \in {{}, {"defvals"},
                                    {"scale", "beam_energy", "data_files", "simulated"},
                                    {"defvals", "scale", "beam_energy", "data_files",
                                     "simulated"}}}
        \cup {[k \in {"defvals"} |-> Entry(NoValue, "kw")]}

NoMetadata == [kind |-> "None", dict |-> <<>>]

\* the metadata argument of load: None, a dict or the path of a JSON file
MetadataChoices ==
    {NoMetadata} \cup
    {[kind |-> kind, dict |-> DictOf(keys, "md")] :
        kind \in {"dict", "json"},
        keys \in {{}, {"defocus_values"}, {"scale", "filepath"},
                  {"defocus_values", "filepath"},
                  {"defocus_values", "scale", "beam_energy", "data_files", "simulated"}}}

\* the metadata embedded in an image file
EmbeddedChoices ==
    {DictOf(keys, "fm") :
        keys \in {{}, {"defocus_values", "filepath"},
                  {"defocus_values", "scale", "beam_energy", "data_files", "simulated"}}}

\* beam energies: None, a valid one, zero, a negative one, a string
EnergyChoices ==
    {NoValue, Number(200), Number(0), Number(0 - 5), [kind |-> "str", v |-> <<>>]}

(* ---------------------------- the state machine ------------------------ *)
Constructed == "_filtered" \in self.attrs

\* the last call: its name, the exception it raised, the indices a filter call
\* selected, whether the value a constructor or setter was given has a length
\* that differs from the length of the other field, whether a preprocess
\* or reset_transforms call directly followed a preprocess call that returned,
\* the arguments <<idx, image>> of a select_ROI call and the preview it handed
\* to the ROI primitive (<<>> when the primitive was not invoked)
NoCall == [op |-> "none", err |-> "ok", indices |-> <<>>, mismatch |-> FALSE,
           after_preprocess |-> FALSE, args |-> <<>>, preview |-> <<>>]

\* a defocus-value argument has a length, and it is not n
LenDiffers(dfs, n) == dfs.kind # "None" /\ Len(dfs.v) # n

Called(op, err) == [NoCall EXCEPT !.op = op, !.err = err]

\* no instance yet; `copied` says that instance 2 is a copy of instance 1
World0 ==
    [ds |-> <<NoInstance, NoInstance>>,
     default_files |-> <<>>,
     caller_defvals |-> Ramp(NumImages),
     copied |-> FALSE]

\* no call of load, of the constructor or of the energy setter yet
NoMeta ==
    [op |-> "none", err |-> "ok", ds |-> NoDataset, images |-> "none",
     metadata |-> NoMetadata, embedded |-> <<>>, kwargs |-> <<>>, arg |-> NoValue]

Init ==
    /\ self = Blank
    /\ last = NoCall
    /\ ctor = NoneVal
    /\ applied = Blank.transforms
    /\ world = World0
    /\ meta = NoMeta

Construct ==
    \E images \in CtorImages, defvals \in DefvalChoices :
        /\ self = Blank
        /\ last.op = "none"
        /\ \E r \in {DefocusedDataset_init(images, defvals)} :
               /\ self' = r.self
               /\ last' = [Called("init", r.err) EXCEPT
                              !.mismatch = LenDiffers(defvals, PyLen(Promote(images)))]
        /\ ctor' = Promote(images)
        /\ UNCHANGED <<applied, world, meta>>

SetImages ==
    \E ims \in AssignImages :
        /\ Constructed
        /\ \E r \in {images_setter(self, ims)} :
               /\ self' = r.self
               /\ last' = [Called("set_images", r.err) EXCEPT
                              !.mismatch = PyLen(Promote(ims)) # Len(self.defvals.v)]
        /\ UNCHANGED <<ctor, applied, world, meta>>

SetDefvals ==
    \E dfs \in DefvalChoices :
        /\ Constructed
        /\ \E r \in {defvals_setter(self, dfs)} :
               /\ self' = r.self
               /\ last' = [Called("set_defvals", r.err) EXCEPT
                              !.mismatch = LenDiffers(dfs, PyLen(self.images))]
        /\ UNCHANGED <<ctor, applied, world, meta>>

Preprocess ==
    \E args \in PreprocessChoices :
        /\ Constructed
        /\ \E r \in {preprocess(self, args[1], args[2])} :
               /\ self' = r.self
               /\ last' = [Called("preprocess", r.err) EXCEPT
                              !.after_preprocess = (last.op = "preprocess" /\ last.err = "ok")]
        /\ applied' = self.transforms
        /\ UNCHANGED <<ctor, world, meta>>

ApplyTransforms ==
    /\ Constructed
    /\ \E r \in {apply_transforms(self)} :
           /\ self' = r.self
           /\ last' = Called("apply_transforms", r.err)
    /\ applied' = self.transforms
    /\ UNCHANGED <<ctor, world, meta>>

ResetTransforms ==
    /\ Constructed
    /\ \E r \in {reset_transforms(self)} :
           /\ self' = r.self
           /\ last' = [Called("reset_transforms", r.err) EXCEPT
                          !.after_preprocess = (last.op = "preprocess" /\ last.err = "ok")]
           /\ applied' = r.self.transforms
    /\ UNCHANGED <<ctor, world, meta>>

FilterCall(p, idx) ==
    /\ Constructed
    /\ \E r \in {filter(self, p, idx)} :
           /\ self' = r.self
           /\ last' = [Called("filter", r.err) EXCEPT
                          !.indices = IF idx.kind = "other" THEN <<>> ELSE Indices(self, idx)]
    /\ UNCHANGED <<ctor, applied, world, meta>>

Filter == \E p \in FilterChoices, idx \in IdxChoices : FilterCall(p, idx)

SelectROI ==
    \E args \in ROIChoices, roi \in Boxes :
        /\ Constructed
        /\ \E r \in {select_ROI(self, args[1], args[2], roi)} :
               /\ self' = r.self
               /\ last' = [Called("select_ROI", r.err) EXCEPT
                              !.args = args,
                              !.preview = IF r.err = "ok"
                                          THEN ROIPreview(self, args[1], args[2])
                                          ELSE <<>>]
        /\ UNCHANGED <<ctor, applied, world, meta>>

\* the user sets the rotation angle of the transform parameters
SetRotation ==
    \E angle \in Rotations :
        /\ Constructed
        /\ self' = [self EXCEPT !.transforms = [@ EXCEPT !.rotation = angle],
                                !.transforms_modified = TRUE]
        /\ last' = Called("set_rotation", "ok")
        /\ UNCHANGED <<ctor, applied, world, meta>>

Copy ==
    /\ Constructed
    /\ self' = copy(self)
    /\ last' = Called("copy", "ok")
    /\ UNCHANGED <<ctor, applied, world, meta>>

Next ==
    \/ Construct
    \/ SetImages
    \/ SetDefvals
    \/ Preprocess
    \/ ApplyTransforms
    \/ ResetTransforms
    \/ Filter
    \/ SelectROI
    \/ SetRotation
    \/ Copy

Spec == Init /\ [][Next]_vars

\* the stage calls alone: no direct assignment to images or defvals
NextStages ==
    \/ Construct
    \/ Preprocess
    \/ ApplyTransforms
    \/ ResetTransforms
    \/ Filter
    \/ SelectROI
    \/ SetRotation

SpecStages == Init /\ [][NextStages]_vars

\* a whole-stack filter call that returns
FilterWhole ==
    \E p \in ReplayFilterChoices : FilterCall(p, NoIdx) /\ last'.err = "ok"

\* stage calls that return, filter over the whole stack only
NextReplay ==
    \/ Construct
    \/ Preprocess
    \/ ApplyTransforms
    \/ ResetTransforms
    \/ FilterWhole
    \/ SelectROI
    \/ SetRotation

SpecReplay == Init /\ [][NextReplay]_vars

\* DefocusedDataset(images, defvals=...) with one 2D image or a stack of images
\* that are not square
ConstructShaped ==
    \E images \in ShapedImages, defvals \in DefvalChoices :
        /\ self = Blank
        /\ last.op = "none"
        /\ \E r \in {DefocusedDataset_init(images, defvals)} :
               /\ self' = r.self
               /\ last' = [Called("init", r.err) EXCEPT
                              !.mismatch = LenDiffers(defvals, PyLen(Promote(images))),
                              !.args = <<images, defvals>>]
        /\ ctor' = Promote(images)
        /\ UNCHANGED <<applied, world, meta>>

\* construction from images that are not square, assignments, and the
\* transform stage
NextShapes ==
    \/ ConstructShaped
    \/ SetImages
    \/ SetDefvals
    \/ Preprocess
    \/ ApplyTransforms
    \/ ResetTransforms
    \/ SelectROI
    \/ SetRotation

SpecShapes == Init /\ [][NextShapes]_vars

\* ds.filter(..., idx=idx, show=show)
FilterShown ==
    \E p \in FilterChoices, idx \in DisplayIdxChoices, show \in BOOLEAN :
        FilterCall([p EXCEPT !.show = show], idx)

ShowIm ==
    \E idx \in ShowIdxChoices :
        /\ Constructed
        /\ \E r \in {show_im(self, idx)} :
               /\ self' = r.self
               /\ last' = Called("show_im", r.err)
        /\ UNCHANGED <<ctor, applied, world, meta>>

ShowAll ==
    /\ Constructed
    /\ \E r \in {show_all(self)} :
           /\ self' = r.self
           /\ last' = Called("show_all", r.err)
    /\ UNCHANGED <<ctor, applied, world, meta>>

\* the stage calls with the calls that draw
NextDisplay ==
    \/ Construct
    \/ Preprocess
    \/ ApplyTransforms
    \/ SelectROI
    \/ FilterShown
    \/ ShowIm
    \/ ShowAll

SpecDisplay == Init /\ [][NextDisplay]_vars

\* ds.filter(..., idx=-1): the last image alone is selected
FilterOne ==
    \E p \in ReplayFilterChoices : FilterCall(p, IntIdx(0 - 1))

\* the stage calls where every filter call selects the last image alone, so
\* that no filter call ever selects the first image
NextSubset ==
    \/ Construct
    \/ Preprocess
    \/ ApplyTransforms
    \/ ResetTransforms
    \/ FilterOne
    \/ SelectROI
    \/ SetRotation

SpecSubset == Init /\ [][NextSubset]_vars

ConstructedAt(i) == "_filtered" \in world.ds[i].s.attrs

\* DefocusedDataset(images, defvals=..., data_files=...) makes instance i
ConstructAt(i) ==
    \E from \in DefvalsFrom, files \in FilesChoices :
        /\ world.ds[i] = NoInstance
        /\ \E s2 \in {DefocusedDataset_init(RawStack(NumImages),
                                              IF from = "caller" THEN world.caller_defvals
                                              ELSE Ramp(NumImages)).self} :
               world' = InitAt(world, i, s2,
                               IF from = "caller" THEN CallerDefvalsAddr ELSE NoObject,
                               IF files = <<>> THEN DefaultFilesAddr ELSE NoObject,
                               IF files = <<>> THEN world.default_files ELSE files)
        /\ UNCHANGED <<self, last, ctor, applied, meta>>

\* instance 2 is made as instance 1's copy()
CopyAt ==
    /\ ConstructedAt(1)
    /\ world.ds[2] = NoInstance
    /\ world' = [deepcopy(world, 1, 2) EXCEPT !.copied = TRUE]
    /\ UNCHANGED <<self, last, ctor, applied, meta>>

FilterAt(i) ==
    /\ ConstructedAt(i)
    /\ \E p \in FilterChoices :
           \E s2 \in {filter(world.ds[i].s, p, NoIdx).self} :
               world' = MethodEffect(world, i, s2, FilterAssigns(world.ds[i].s))
    /\ UNCHANGED <<self, last, ctor, applied, meta>>

PreprocessAt(i) ==
    /\ ConstructedAt(i)
    /\ \E s2 \in {preprocess(world.ds[i].s, TRUE, <<>>).self} :
           world' = MethodEffect(world, i, s2, PreprocessAssigns(world.ds[i].s))
    /\ UNCHANGED <<self, last, ctor, applied, meta>>

\* ds.images[0] = 0: an in-place write through the images property
WriteImagesAt(i) ==
    LET s == world.ds[i].s
        zero == ZeroImage(Height(s.images.v[1]), Width(s.images.v[1]))
    IN /\ ConstructedAt(i)
       /\ \E s2 \in {[s EXCEPT !.images = Put(@, <<0>>, <<zero>>)]} :
              world' = MethodEffect(world, i, s2, {})
       /\ UNCHANGED <<self, last, ctor, applied, meta>>

\* ds.data_files.append(path)
AppendFileAt(i) ==
    LET d == world.ds[i]
    IN /\ ConstructedAt(i)
       /\ \A k \in 1..Len(d.data_files) : d.data_files[k] # AppendedFile
       /\ world' = Store(world, i, [f \in {"data_files"} |-> Append(d.data_files, AppendedFile)],
                         <<>>)
       /\ UNCHANGED <<self, last, ctor, applied, meta>>

NextInstances ==
    \/ \E i \in 1..2 : ConstructAt(i)
    \/ CopyAt
    \/ \E i \in 1..2 : FilterAt(i)
    \/ \E i \in 1..2 : PreprocessAt(i)
    \/ \E i \in 1..2 : WriteImagesAt(i)
    \/ \E i \in 1..2 : AppendFileAt(i)

SpecInstances == Init /\ [][NextInstances]_vars

\* DefocusedDataset.load(images, metadata, **kwargs)
Load ==
    \E images \in {"array", "path", "path_list"}, metadata \in MetadataChoices,
       embedded \in EmbeddedChoices, kwargs \in KwargsChoices :
        /\ images # "path" => embedded = <<>>
        /\ \E r \in {load(images, RawStack(NumImages), metadata, embedded, kwargs)} :
               meta' = [op |-> "load", err |-> r.err, ds |-> r.ds, images |-> images,
                        metadata |-> metadata, embedded |-> embedded, kwargs |-> kwargs,
                        arg |-> NoValue]
        /\ UNCHANGED <<self, last, ctor, applied, world>>

\* DefocusedDataset(images, defvals=..., beam_energy=...)
Create ==
    \E beam_energy \in EnergyChoices :
        /\ \E r \in {MetaInit(RawStack(NumImages), Entry(NoValue, "default"),
                              Entry(Ramp(NumImages), "kw"), Entry(beam_energy, "kw"),
                              Entry([kind |-> "list", v |-> <<>>], "default"),
                              Entry([kind |-> "bool", v |-> <<FALSE>>], "default"))} :
               meta' = [NoMeta EXCEPT !.op = "init", !.err = r.err, !.ds = r.ds,
                                      !.arg = beam_energy]
        /\ UNCHANGED <<self, last, ctor, applied, world>>

\* ds.energy = val
SetEnergy ==
    \E val \in EnergyChoices :
        /\ meta.ds # NoDataset
        /\ \E r \in {energy_setter(meta.ds, val)} :
               meta' = [meta EXCEPT !.op = "set_energy", !.err = r.err, !.ds = r.ds,
                                    !.arg = val]
        /\ UNCHANGED <<self, last, ctor, applied, world>>

NextLoad ==
    \/ Load
    \/ Create
    \/ SetEnergy

SpecLoad == Init /\ [][NextLoad]_vars

(* ------------------------------ claims --------------------------------- *)
Caches(s) ==
    <<s.images, s.orig_images, s.orig_images_preprocessed, s.images_cropped,
      s.images_filtered>>

\* C1: once construction has succeeded, the number of images equals the number
\* of defocus values in every state, whatever stage calls, copies and accepted
\* or rejected assignments to images and defvals have happened.
C1_LenInvariant ==
    Constructed =>
        /\ self.images.ndim = 3
        /\ self.defvals.kind = "array"
        /\ PyLen(self.images) = Len(self.defvals.v)

\* a stage has run and an assignment of images of another length was rejected
C1_Witness ==
    /\ Constructed
    /\ self.cropped
    /\ last.op = "set_images"
    /\ last.mismatch
    /\ last.err = "ValueError"

\* C2: an assignment to images or defvals of a value whose length differs from
\* the length of the other field raises ValueError, and a rejected assignment
\* leaves the whole instance (images, defvals, caches, flags) as it was.
C2_RejectedAssignment ==
    [][last'.op \in {"set_images", "set_defvals"} =>
          /\ last'.mismatch => last'.err = "ValueError"
          /\ last'.err # "ok" => self' = self]_vars

\* defocus values of a wrong length were rejected on a filtered dataset
C2_Witness ==
    /\ Constructed
    /\ self.filtered
    /\ last.op = "set_defvals"
    /\ last.mismatch
    /\ last.err = "ValueError"

\* C3: a construction with an image count that differs from the defocus-value
\* count raises ValueError before any cache exists on the instance.
C3_FailsBeforeCaches ==
    (last.op = "init" /\ last.mismatch) =>
        /\ last.err = "ValueError"
        /\ \A k \in 1..5 : IsNone(Caches(self)[k])
        /\ self.attrs \cap {"_images", "_orig_images"} = {}

\* C4: the raw stack stays element-wise equal to the images the constructor was
\* given, whatever calls follow.
C4_RawUnchanged == Constructed => self.orig_images = ctor

\* hot-pixel removal changed the stack, then a filter ran
C4_Witness ==
    /\ Constructed
    /\ self.preprocessed
    /\ self.filters.hotpix
    /\ self.orig_images_preprocessed # self.orig_images
    /\ last.op = "filter"
    /\ last.err = "ok"

StageOps == {"preprocess", "apply_transforms", "reset_transforms", "filter"}

\* the 1-based slots a filter call selected
Selected(indices, n) == {PyIndex(indices[k], n) : k \in 1..Len(indices)}

\* C5 as claimed: after every stage call that returned, Current View equals the
\* cache produced last (Filtered after filter, Filtered or Cropped after the
\* transform stage), and Raw before any stage has run.
C5_ViewIsLatestCache ==
    /\ (Constructed /\ last.op \in StageOps /\ last.err = "ok") =>
          self.images = IF self.filtered THEN self.images_filtered ELSE self.images_cropped
    /\ (Constructed /\ ~self.cropped) => self.images = self.orig_images

\* C5 as amended: the equality holds after preprocess, apply_transforms and
\* reset_transforms; after filter it holds at the selected indices; before any
\* stage has run Current View equals Raw.
C5_ViewIsLatestCacheWhereWritten ==
    /\ (Constructed /\ last.op \in StageOps \ {"filter"} /\ last.err = "ok") =>
          self.images = IF self.filtered THEN self.images_filtered ELSE self.images_cropped
    /\ (Constructed /\ last.op = "filter" /\ last.err = "ok") =>
          \A j \in Selected(last.indices, PyLen(self.images)) :
              self.images.v[j] = self.images_filtered.v[j]
    /\ (Constructed /\ ~self.cropped) => self.images = self.orig_images

\* a filter of one index returned and left another index of Current View
\* different from Filtered
C5_Witness ==
    /\ Constructed
    /\ last.op = "filter"
    /\ last.err = "ok"
    /\ Len(last.indices) = 1
    /\ self.images # self.images_filtered

\* C6: a filter call writes only the selected indices: every other index of
\* Current View, and of Filtered when it existed before the call, keeps its
\* value, and the stacks keep their length.
C6_FilterFrame ==
    [][last'.op = "filter" =>
          /\ PyLen(self'.images) = PyLen(self.images)
          /\ \A j \in 1..PyLen(self.images) \ Selected(last'.indices, PyLen(self.images)) :
                /\ self'.images.v[j] = self.images.v[j]
                /\ self.images_filtered.ndim = 3 =>
                      /\ PyLen(self'.images_filtered) = PyLen(self.images_filtered)
                      /\ self'.images_filtered.v[j] = self.images_filtered.v[j]]_vars

\* a filter of the last index alone returned on a stack whose first image had
\* been filtered before
C6_Witness ==
    /\ Constructed
    /\ last.op = "filter"
    /\ last.err = "ok"
    /\ last.indices = <<0 - 1>>
    /\ self.images_filtered.v[1] # ZeroImage(Height(self.images_filtered.v[1]),
                                             Width(self.images_filtered.v[1]))
    /\ self.images_filtered.v[1] # self.images_cropped.v[1]

RecordedFilter(s) ==
    [q_lowpass |-> s.filters.q_lowpass, q_highpass |-> s.filters.q_highpass,
     filter_type |-> s.filters.filter_type,
     butterworth_order |-> s.filters.butterworth_order[1], show |-> FALSE]

Unfiltered(s) == [s EXCEPT !.filtered = FALSE, !.images_filtered = NoneVal]

\* C7: once filter has run, apply_transforms under the current transform
\* parameters leaves the Filtered cache and Current View that apply_transforms
\* on the same dataset without its filter stage, followed by a whole-stack
\* filter call with the recorded parameters, leaves.
C7_ReplayEqualsManual ==
    (Constructed /\ self.filtered) =>
        \A auto \in {apply_transforms(self)}, bare \in {apply_transforms(Unfiltered(self))} :
            \A manual \in {filter(bare.self, RecordedFilter(self), NoIdx)} :
                /\ auto.err = "ok"
                /\ manual.err = "ok"
                /\ auto.self.images = manual.self.images
                /\ auto.self.images_filtered = manual.self.images_filtered

\* after a filter, the rotation or the crop box was changed and
\* apply_transforms replayed the filter on the new crop
C7_Witness ==
    /\ Constructed
    /\ self.filtered
    /\ last.op = "apply_transforms"
    /\ last.err = "ok"
    /\ applied # FullFrame(self.orig_shape)
    /\ self.images = self.images_filtered
    /\ self.images # self.images_cropped

\* the stack before the transform stage: Preprocessed if preprocessing ran, else Raw
PreTransformStage(s) ==
    IF s.preprocessed THEN s.orig_images_preprocessed ELSE s.orig_images

\* the recorded filter applied to every image of a stack
FilterRecorded(s, a) == [a EXCEPT !.v = [i \in 1..Len(a.v) |-> Refilter(s, a.v[i])]]

PreprocessLast(s, img) ==
    LET hot == IF s.filters.hotpix THEN filter_hotpix(img) ELSE img
    IN IF s.filters.median # <<>> THEN median_filter(hot, s.filters.median[1]) ELSE hot

\* Filter_last(Crop/Rotate_applied(Preprocess_last(Raw))), a stage that never
\* ran being the identity
Canonical(s, t) ==
    [s.orig_images EXCEPT !.v = [i \in 1..Len(s.orig_images.v) |->
        LET pre == IF s.preprocessed THEN PreprocessLast(s, s.orig_images.v[i])
                   ELSE s.orig_images.v[i]
            rot == IF t.rotation # 0 THEN rotate(pre, t.rotation) ELSE pre
            cut == IF s.cropped THEN crop(rot, t.top, t.bottom, t.left, t.right) ELSE pre
        IN IF s.filtered THEN Refilter(s, cut) ELSE cut]]

\* C10: after any sequence of returning preprocess, apply_transforms,
\* reset_transforms and whole-stack filter calls, Current View is the recorded
\* filter applied to the applied rotation and crop applied to the recorded
\* preprocessing of Raw.
C10_ReplayFromRaw == Constructed => self.images = Canonical(self, applied)

\* all three stages have run, the filter and the preprocessing more than once
\* over a rotated and cropped stack, and each changed the images
C10_Witness ==
    /\ Constructed
    /\ self.preprocessed
    /\ self.filtered
    /\ self.filters.median # <<>>
    /\ self.filters.filter_type = "gaussian"
    /\ applied.rotation = 90
    /\ applied.left = 1
    /\ last.op = "preprocess"
    /\ self.images # self.images_cropped
    /\ self.orig_images_preprocessed # self.orig_images

\* the images a filter call with arguments p computes from the input stack
FilterOf(s, p, indices) ==
    [k \in 1..Len(indices) |->
        bandpass_filter(Take(FilterInput(s), indices)[k], p.q_lowpass, p.q_highpass,
                        p.filter_type, p.butterworth_order)]

\* C11: a filter call with an accepted idx whose indices are in range returns,
\* on a freshly constructed dataset as well, with the filtered flag set, Filtered
\* a stack, and the filter of the input stack (Cropped, else Preprocessed, else
\* Raw) at the selected indices of Filtered and of Current View.
C11_FilterCompletes ==
    [][(last'.op = "filter" /\ last'.err # "TypeError"
            /\ AllIndexOK(last'.indices, PyLen(FilterInput(self)))) =>
          /\ last'.err = "ok"
          /\ self'.filtered
          /\ self'.images_filtered.ndim = 3
          /\ Take(self'.images_filtered, last'.indices)
                = FilterOf(self, RecordedFilter(self'), last'.indices)
          /\ Take(self'.images, last'.indices)
                = FilterOf(self, RecordedFilter(self'), last'.indices)]_vars

\* C12: a stage call that raises leaves Current View, the caches, the stage
\* flags and the recorded filter and preprocess parameters as they were.
C12_NoPartialMutation ==
    [][(last'.op \in StageOps /\ last'.err # "ok") =>
          /\ Caches(self') = Caches(self)
          /\ <<self'.preprocessed, self'.cropped, self'.filtered>>
                = <<self.preprocessed, self.cropped, self.filtered>>
          /\ self'.filters = self.filters]_vars

\* C13: filter raises TypeError exactly for an idx that is neither None, an
\* int nor a list, and then leaves the instance (filtered flag, filter record,
\* Filtered, Current View) as it was.
C13_IdxTypeError ==
    Constructed =>
        \A p \in FilterChoices, idx \in IdxChoices :
            \A r \in {filter(self, p, idx)} :
                /\ idx.kind = "other" => (r.err = "TypeError" /\ r.self = self)
                /\ idx.kind # "other" => r.err # "TypeError"

\* a filter call with an idx of another type was rejected on a dataset that
\* had been cropped and not filtered
C13_Witness ==
    /\ Constructed
    /\ last.op = "filter"
    /\ last.err = "TypeError"
    /\ self.cropped
    /\ ~self.filtered
    /\ IsNone(self.images_filtered)

\* C14: preprocess(p1) followed by preprocess(p2) leaves the Preprocessed,
\* Cropped and Current View stacks that preprocess(p2) alone leaves.
C14_PreprocessNeverCompounds ==
    Constructed =>
        \A p1 \in PreprocessChoices :
            \A first \in {preprocess(self, p1[1], p1[2])} :
                \A p2 \in PreprocessChoices :
                    \A twice \in {preprocess(first.self, p2[1], p2[2])},
                       once \in {preprocess(self, p2[1], p2[2])} :
                        /\ first.err = "ok"
                        /\ twice.err = "ok"
                        /\ once.err = "ok"
                        /\ twice.self.orig_images_preprocessed =
                              once.self.orig_images_preprocessed
                        /\ twice.self.images_cropped = once.self.images_cropped
                        /\ twice.self.images = once.self.images

\* a median preprocess directly followed a preprocess that returned; the
\* hot-pixel removal applied to its result would differ from the hot-pixel
\* removal of Raw
C14_Witness ==
    /\ Constructed
    /\ last.op = "preprocess"
    /\ last.err = "ok"
    /\ last.after_preprocess
    /\ self.filters.median # <<>>
    /\ self.orig_images_preprocessed # self.orig_images
    /\ MapStack(self.orig_images_preprocessed, filter_hotpix)
          # MapStack(self.orig_images, filter_hotpix)

\* what an instance holds: its attributes, its file list and its directories
Values(d) == <<d.s, d.data_files, d.data_dirs>>

\* C15: copy() leaves a dataset equal to the original and leaves the original
\* as it was, and once instance 2 is the copy of instance 1, every call and
\* every in-place write changes the arrays, flags and lists of one of the two
\* only.
C15_CopyIndependent ==
    [][/\ (~world.copied /\ world'.copied) =>
             /\ Values(world'.ds[2]) = Values(world.ds[1])
             /\ Values(world'.ds[1]) = Values(world.ds[1])
       /\ world.copied =>
             \/ Values(world'.ds[1]) = Values(world.ds[1])
             \/ Values(world'.ds[2]) = Values(world.ds[2])]_vars

\* the copy of a preprocessed dataset has been filtered and a path appended
\* to its file list, the original has been written in place
C15_Witness ==
    /\ world.copied
    /\ world.ds[1].s.preprocessed
    /\ ~world.ds[1].s.filtered
    /\ world.ds[2].s.filtered
    /\ world.ds[2].s.images_filtered.ndim = 3
    /\ world.ds[1].s.images.v[1] # world.ds[1].s.images_cropped.v[1]
    /\ world.ds[2].s.images.v[1] = world.ds[2].s.images_filtered.v[1]
    /\ world.ds[2].data_files # world.ds[1].data_files

\* C16: two instances that were constructed separately have no object in
\* common: no attribute of one is bound to an object an attribute of the other
\* is bound to.
C16_NoSharedObject ==
    (ConstructedAt(1) /\ ConstructedAt(2) /\ ~world.copied) =>
        \A f \in ObjectFields, g \in ObjectFields :
            world.ds[1].ref[f] = world.ds[2].ref[g] => world.ds[1].ref[f] = NoObject

\* a numeric, strictly positive energy
ValidEnergy(val) == val.kind = "num" /\ val.v[1] > 0

\* C17: a beam energy that is not None and not a positive number is rejected
\* with a validation error and never stored, at construction and on
\* assignment, so every stored energy is numeric and strictly positive.
C17_EnergyValidated ==
    /\ (meta.op \in {"init", "set_energy"} /\ meta.arg.kind # "None"
            /\ ~ValidEnergy(meta.arg)) =>
          meta.err \in {"TypeError", "ValueError"}
    /\ \A val \in {meta.ds.beam_energy.val, meta.ds.energy} :
          val.kind = "None" \/ ValidEnergy(val)

\* the metadata argument, or the file, holds a value for the field
Holds(dict, field) ==
    IF field = "defvals" THEN "defocus_values" \in DOMAIN dict
    ELSE IF field = "data_files" THEN DOMAIN dict \cap {"data_files", "filepath"} # {}
    ELSE field \in DOMAIN dict

\* the source load should take the field from
Expected(field) ==
    IF field \in DOMAIN meta.kwargs THEN "kw"
    ELSE IF Holds(meta.metadata.dict, field) THEN "md"
    ELSE IF meta.images = "path" /\ Holds(meta.embedded, field) THEN "fm"
    ELSE "default"

\* C18: in the dataset load leaves, every field comes from the keyword
\* argument if there is one, else from the metadata argument if it holds the
\* field, else from the metadata embedded in the file.
C18_LoadPrecedence ==
    (meta.op = "load" /\ meta.err = "ok") =>
        /\ meta.ds.defvals.from = Expected("defvals")
        /\ meta.ds.scale.from = Expected("scale")
        /\ meta.ds.beam_energy.from = Expected("beam_energy")
        /\ meta.ds.data_files.from = Expected("data_files")
        /\ meta.ds.simulated.from = Expected("simulated")

\* some source of the last load call supplies defocus values
DefvalsSupplied ==
    \/ "defvals" \in DOMAIN meta.kwargs /\ meta.kwargs["defvals"].val.kind # "None"
    \/ Holds(meta.metadata.dict, "defvals")
    \/ meta.images = "path" /\ Holds(meta.embedded, "defvals")

\* C19: load of a stack or of one file raises the ValueError naming defvals,
\* and leaves no dataset, exactly when no keyword argument and no metadata
\* source supplies defocus values.
C19_MissingDefvals ==
    (meta.op = "load" /\ meta.images \in {"array", "path"}) =>
        /\ meta.err = "ValueError: defvals must be specified" <=> ~DefvalsSupplied
        /\ meta.err # "ok" => meta.ds = NoDataset

\* C20: load of a list of file paths for which no source supplies defocus
\* values raises NotImplementedError, not the missing-defvals error, and
\* leaves no dataset.
C20_PathListNotImplemented ==
    (meta.op = "load" /\ meta.images = "path_list" /\ ~DefvalsSupplied) =>
        /\ meta.err = "NotImplementedError"
        /\ meta.ds = NoDataset

\* a list of paths was loaded with a metadata dict that holds a scale and a
\* file path and no defocus values
C20_Witness ==
    /\ meta.op = "load"
    /\ meta.images = "path_list"
    /\ meta.metadata.kind = "dict"
    /\ "scale" \in DOMAIN meta.metadata.dict
    /\ ~DefvalsSupplied
    /\ meta.err = "NotImplementedError"

Flags(s) == <<s.preprocessed, s.cropped, s.filtered>>

\* C21: a select_ROI call, whatever its arguments and whether it returns or
\* raises, leaves Current View, Raw, Preprocessed, Cropped, Filtered, the
\* three stage flags and the recorded filter as they were: it does not run the
\* transform stage.
C21_SelectROIFrame ==
    [][last'.op = "select_ROI" =>
          /\ Caches(self') = Caches(self)
          /\ Flags(self') = Flags(self)
          /\ self'.filters = self.filters
          /\ self'.defvals = self.defvals]_vars

\* select_ROI stored another rectangle on a cropped and filtered dataset, and
\* Cropped still has the shape of the rectangle applied before
C21_Witness ==
    /\ Constructed
    /\ last.op = "select_ROI"
    /\ last.err = "ok"
    /\ self.cropped
    /\ self.filtered
    /\ self.images_filtered.ndim = 3
    /\ self.transforms.left # applied.left
    /\ ShapeOf(self.images_cropped)
          # <<self.transforms.bottom - self.transforms.top,
              self.transforms.right - self.transforms.left>>

\* the shape of the image argument of the last select_ROI call
ArgShape(call) == <<Height(call.args[2].v), Width(call.args[2].v)>>

\* C22: select_ROI with an image whose shape differs from the original shape
\* raises ValueError without invoking the ROI primitive and leaves the
\* transform parameters and the whole instance as they were, also when a crop
\* has made Current View smaller and the image has the shape of Current View;
\* an image of the original shape is accepted.
C22_ShapeMismatch ==
    [][(last'.op = "select_ROI" /\ ~IsNone(last'.args[2])) =>
          /\ ArgShape(last') # self.orig_shape =>
                /\ last'.err = "ValueError"
                /\ last'.preview = <<>>
                /\ self' = self
          /\ ArgShape(last') = self.orig_shape => last'.err = "ok"]_vars

\* an image of the shape of the cropped Current View was rejected
C22_Witness ==
    /\ Constructed
    /\ last.op = "select_ROI"
    /\ last.err = "ValueError"
    /\ self.cropped
    /\ ~IsNone(last.args[2])
    /\ ArgShape(last) = ShapeOf(self.images)
    /\ ArgShape(last) # self.orig_shape

\* an image of the same shape with other pixel values
OtherImage(img) ==
    [r \in 1..Height(img) |-> [c \in 1..Width(img) |-> (img[r][c] + r + c) % (MaxPix + 1)]]

\* a stack with every image but the one at slot i replaced
ElsewhereStack(a, i) ==
    IF a.ndim # 3 THEN a
    ELSE [a EXCEPT !.v = [j \in 1..Len(a.v) |-> IF j = i THEN a.v[j] ELSE OtherImage(a.v[j])]]

\* the instance with the same parameters, flags and images at slot i, and
\* other images at every other slot of every stack
Elsewhere(s, i) ==
    [s EXCEPT !.images = ElsewhereStack(@, i),
              !.orig_images = ElsewhereStack(@, i),
              !.orig_images_preprocessed = ElsewhereStack(@, i),
              !.images_cropped = ElsewhereStack(@, i),
              !.images_filtered = ElsewhereStack(@, i)]

SlotOf(a, i) == IF a.ndim = 3 /\ i <= Len(a.v) THEN <<a.v[i]>> ELSE <<>>

\* what a call left at slot i: the outcome, the image of every stack at the
\* slot, the flags, the parameters and the defocus values
AtSlot(r, i) ==
    <<r.err, [k \in 1..5 |-> SlotOf(Caches(r.self)[k], i)], Flags(r.self), r.self.filters,
      r.self.transforms, r.self.defvals>>

\* C23: every stage call works per image and keeps the order: what preprocess
\* (hot-pixel removal or median filter), apply_transforms, reset_transforms and
\* filter leave at index i of Current View and of every cache is the same
\* whatever the images at the other indices are, so that after any sequence of
\* stage calls Current View[i] depends on Raw[i] and the parameters only.
C23_PerImage ==
    Constructed =>
        \A i \in 1..PyLen(self.orig_images) :
            \A alt \in {Elsewhere(self, i)} :
                /\ last.op = "init" => self.images = self.orig_images
                /\ \A a \in PreprocessChoices :
                      \A r1 \in {preprocess(self, a[1], a[2])},
                         r2 \in {preprocess(alt, a[1], a[2])} :
                          AtSlot(r1, i) = AtSlot(r2, i)
                /\ \A r1 \in {apply_transforms(self)}, r2 \in {apply_transforms(alt)} :
                      AtSlot(r1, i) = AtSlot(r2, i)
                /\ \A r1 \in {reset_transforms(self)}, r2 \in {reset_transforms(alt)} :
                      AtSlot(r1, i) = AtSlot(r2, i)
                /\ \A p \in FilterChoices, idx \in IdxChoices :
                      \A r1 \in {filter(self, p, idx)}, r2 \in {filter(alt, p, idx)} :
                          AtSlot(r1, i) = AtSlot(r2, i)

\* a median preprocess, a rotation with a crop and a filter have run, and
\* with other images at the second index each stage leaves another image there
\* while the first index is the same
C23_Witness ==
    /\ Constructed
    /\ self.preprocessed
    /\ self.filters.median # <<>>
    /\ self.filtered
    /\ applied.rotation = 90
    /\ last.op = "filter"
    /\ last.err = "ok"
    /\ self.images.v[1] # self.images.v[PyLen(self.images)]
    /\ \A a \in PreprocessChoices :
          /\ preprocess(Elsewhere(self, 1), a[1], a[2]).self.images.v[PyLen(self.images)]
                # preprocess(self, a[1], a[2]).self.images.v[PyLen(self.images)]
          /\ preprocess(Elsewhere(self, 1), a[1], a[2]).self.images.v[1]
                = preprocess(self, a[1], a[2]).self.images.v[1]

\* one image after hot-pixel removal (if asked for), then the median filter (if
\* a size is given)
Corrected(img, hotpix, median_filter_size) ==
    LET hot == IF hotpix THEN filter_hotpix(img) ELSE img
    IN IF median_filter_size # <<>> THEN median_filter(hot, median_filter_size[1]) ELSE hot

\* one image rotated by the angle of t, then cut to the rectangle of t
RotatedThenCut(img, t) ==
    crop(IF t.rotation # 0 THEN rotate(img, t.rotation) ELSE img,
         t.top, t.bottom, t.left, t.right)

\* C24: in every state, a preprocess call returns with the preprocessed flag
\* set, Preprocessed the corrected Raw stack of this call, the cropped flag set
\* and Cropped the new Preprocessed stack rotated and then cropped under the
\* current transform parameters, and the recorded preprocess options equal to
\* the arguments of the call.
C24_PreprocessEffect ==
    Constructed =>
        \A a \in PreprocessChoices :
            \A r \in {preprocess(self, a[1], a[2])} :
                /\ r.err = "ok"
                /\ r.self.preprocessed
                /\ r.self.orig_images_preprocessed =
                      Stack([i \in 1..PyLen(self.orig_images) |->
                                Corrected(self.orig_images.v[i], a[1], a[2])])
                /\ r.self.cropped
                /\ r.self.images_cropped =
                      Stack([i \in 1..PyLen(self.orig_images) |->
                                RotatedThenCut(r.self.orig_images_preprocessed.v[i],
                                               self.transforms)])
                /\ r.self.transforms = self.transforms
                /\ r.self.filters.hotpix = a[1]
                /\ r.self.filters.median = a[2]

\* a hot-pixel preprocess returned on a dataset preprocessed before, under a
\* rotation and the smaller crop box: Preprocessed differs from Raw and
\* Cropped from Preprocessed
C24_Witness ==
    /\ Constructed
    /\ last.op = "preprocess"
    /\ last.err = "ok"
    /\ last.after_preprocess
    /\ self.filters.hotpix
    /\ applied.rotation = 90
    /\ applied.left = 1
    /\ self.transforms = applied
    /\ self.orig_images_preprocessed # self.orig_images
    /\ self.images_cropped # self.orig_images_preprocessed

\* the instance with other images in Current View, Cropped and Filtered
OtherDerived(s) ==
    [s EXCEPT !.images = ElsewhereStack(@, 0),
              !.images_cropped = ElsewhereStack(@, 0),
              !.images_filtered = ElsewhereStack(@, 0)]

\* C25: in every state, apply_transforms returns with Cropped equal to the
\* base stack (Preprocessed if the preprocessed flag is set, Raw otherwise)
\* rotated first and cropped second under the transform parameters, whatever
\* Current View, Cropped and Filtered held before, with the cropped flag set
\* and the transforms-modified bit clear.
C25_TransformStage ==
    Constructed =>
        \A r \in {apply_transforms(self)}, r2 \in {apply_transforms(OtherDerived(self))} :
            LET base == IF self.preprocessed THEN self.orig_images_preprocessed
                        ELSE self.orig_images
            IN /\ r.err = "ok"
               /\ r.self.images_cropped =
                     Stack([i \in 1..PyLen(base) |-> RotatedThenCut(base.v[i], self.transforms)])
               /\ r2.self.images_cropped = r.self.images_cropped
               /\ r2.self.images = r.self.images
               /\ r.self.cropped
               /\ ~r.self.transforms_modified
               /\ r.self.transforms = self.transforms
               /\ r.self.orig_images = self.orig_images
               /\ r.self.orig_images_preprocessed = self.orig_images_preprocessed

\* apply_transforms returned on a preprocessed and filtered dataset under a
\* rotation and the smaller crop box: the base, Cropped and Current View are
\* three different stacks
C25_Witness ==
    /\ Constructed
    /\ last.op = "apply_transforms"
    /\ last.err = "ok"
    /\ self.preprocessed
    /\ self.filtered
    /\ applied.rotation = 90
    /\ applied.left = 1
    /\ ~self.transforms_modified
    /\ self.orig_images_preprocessed # self.orig_images
    /\ self.images_cropped # self.orig_images_preprocessed
    /\ self.images # self.images_cropped

TransformOps == {"preprocess", "apply_transforms", "reset_transforms"}

Rectangle(t) == <<t.bottom - t.top, t.right - t.left>>

\* C26: after every call that ran the transform stage, with or without a
\* rotation, Cropped and Current View hold as many images as Raw and each of
\* their images has the shape of the stored crop rectangle (bottom - top,
\* right - left); under the full-frame rectangle that is the original shape.
C26_CanvasKept ==
    (Constructed /\ last.op \in TransformOps /\ last.err = "ok") =>
        /\ PyLen(self.images_cropped) = PyLen(self.orig_images)
        /\ PyLen(self.images) = PyLen(self.orig_images)
        /\ \A i \in 1..PyLen(self.orig_images) :
              /\ <<Height(self.images_cropped.v[i]), Width(self.images_cropped.v[i])>>
                    = Rectangle(self.transforms)
              /\ <<Height(self.images.v[i]), Width(self.images.v[i])>>
                    = Rectangle(self.transforms)
        /\ self.transforms = [FullFrame(self.orig_shape) EXCEPT
                                 !.rotation = self.transforms.rotation] =>
              ShapeOf(self.images) = self.orig_shape

\* apply_transforms returned under a quarter turn and the full frame on
\* images that are not square
C26_Witness ==
    /\ Constructed
    /\ last.op = "apply_transforms"
    /\ last.err = "ok"
    /\ self.transforms.rotation = 90
    /\ self.transforms = [FullFrame(self.orig_shape) EXCEPT !.rotation = 90]
    /\ self.orig_shape[1] # self.orig_shape[2]
    /\ self.images # self.orig_images
    /\ ShapeOf(self.images) = self.orig_shape

\* the slots of a stack of n images that a call left with another image
ChangedSlots(before, after, n) == {j \in 1..n : SlotOf(before, j) # SlotOf(after, j)}

C28_Preview ==
    [][(last'.op = "select_ROI" /\ last'.err = "ok") =>
          LET image == last'.args[2]
              base == IF self.preprocessed THEN self.orig_images_preprocessed
                      ELSE self.orig_images
              img == base.v[PyIndex(last'.args[1], PyLen(base))]
          IN /\ ~IsNone(image) => last'.preview = image.v
             /\ IsNone(image) =>
                   /\ last'.preview =
                         IF self.filtered
                         THEN bandpass_filter(img, self.filters.q_lowpass,
                                              self.filters.q_highpass,
                                              self.filters.filter_type,
                                              self.filters.butterworth_order[1])
                         ELSE img
                   /\ <<Height(last'.preview), Width(last'.preview)>> = self.orig_shape]_vars

\* a preview by index on a preprocessed, rotated, cropped and filtered
\* dataset: it has the original shape and is the filtered Preprocessed image,
\* which differs from the Preprocessed image and from Current View
C28_Witness ==
    /\ Constructed
    /\ last.op = "select_ROI"
    /\ last.err = "ok"
    /\ IsNone(last.args[2])
    /\ self.preprocessed
    /\ self.filtered
    /\ self.cropped
    /\ applied.rotation = 90
    /\ ShapeOf(self.images) # self.orig_shape
    /\ self.orig_images_preprocessed # self.orig_images
    /\ last.preview # self.orig_images_preprocessed.v[1]
    /\ <<Height(last.preview), Width(last.preview)>> = self.orig_shape

\* C29: drawing never changes the dataset: show_im and show_all leave the
\* instance as it was, and a filter call with show=True leaves the instance
\* that the same call with show=False leaves.
C29_DisplayPure ==
    Constructed =>
        /\ \A idx \in ShowIdxChoices : show_im(self, idx).self = self
        /\ show_all(self).self = self
        /\ \A p \in FilterChoices, idx \in DisplayIdxChoices :
              \A shown \in {filter(self, [p EXCEPT !.show = TRUE], idx)},
                 plain \in {filter(self, [p EXCEPT !.show = FALSE], idx)} :
                  shown.self = plain.self

\* a scalar defocus value as the sequence of that one value
AsSequence(dfs) == [kind |-> "array", v |-> dfs.v]

\* C30: a construction with one 2D image and one scalar defocus value returns
\* a dataset of length 1 whose Current View is the stack of that image and
\* whose defocus values are the sequence of that value; an assignment of a 2D
\* image to images does what the assignment of the stack of that one image
\* does, an assignment of a scalar to defvals what the assignment of the
\* sequence of that one value does, and both are accepted on a dataset of
\* length 1.
C30_Promotion ==
    /\ (last.op = "init" /\ last.args # <<>> /\ last.args[1].ndim = 2
            /\ last.args[2].kind = "scalar") =>
          /\ last.err = "ok"
          /\ Constructed
          /\ self.images = Stack(<<last.args[1].v>>)
          /\ self.orig_images = Stack(<<last.args[1].v>>)
          /\ PyLen(self.images) = 1
          /\ self.defvals = AsSequence(last.args[2])
          /\ Len(self.defvals.v) = PyLen(self.images)
    /\ Constructed =>
          /\ \A ims \in {a \in AssignImages : a.ndim = 2} :
                \A r \in {images_setter(self, ims)} :
                    /\ r = images_setter(self, Stack(<<ims.v>>))
                    /\ Len(self.defvals.v) = 1 =>
                          (r.err = "ok" /\ r.self.images = Stack(<<ims.v>>))
          /\ \A dfs \in {d \in DefvalChoices : d.kind = "scalar"} :
                \A r \in {defvals_setter(self, dfs)} :
                    /\ r = defvals_setter(self, AsSequence(dfs))
                    /\ PyLen(self.images) = 1 =>
                          (r.err = "ok" /\ r.self.defvals = AsSequence(dfs))

\* a dataset was constructed from one 2D image and one scalar defocus value
C30_Witness ==
    /\ last.op = "init"
    /\ last.err = "ok"
    /\ last.args # <<>>
    /\ last.args[1].ndim = 2
    /\ last.args[2].kind = "scalar"
    /\ PyLen(self.images) = 1
    /\ self.images.ndim = 3
    /\ Len(self.defvals.v) = 1

\* the band-pass filter with the arguments p applied to every image of a stack
FilterAll(a, p) ==
    [a EXCEPT !.v = [i \in 1..Len(a.v) |->
                        bandpass_filter(a.v[i], p.q_lowpass, p.q_highpass, p.filter_type,
                                        p.butterworth_order)]]

\* C31: filter() never changes Cropped, and filtering does not compound:
\* filter(p1) (over any selection) followed by filter(p2) over all indices
\* ends as filter(p2) over all indices alone ends, with the same Filtered and
\* Current View stacks.
C31_FilterNeverCompounds ==
    Constructed =>
        \A p1 \in ReplayFilterChoices, idx1 \in IdxChoices :
            \A first \in {filter(self, p1, idx1)} :
                /\ first.self.images_cropped = self.images_cropped
                /\ \A p2 \in ReplayFilterChoices :
                      \A twice \in {filter(first.self, p2, NoIdx)},
                         once \in {filter(self, p2, NoIdx)} :
                          /\ twice.err = once.err
                          /\ twice.self.images_cropped = self.images_cropped
                          /\ twice.self.images_filtered = once.self.images_filtered
                          /\ twice.self.images = once.self.images

\* a filter over all indices returned on a cropped dataset; Current View is
\* the filtered stack, and the other filter applied to it would differ from
\* the other filter applied to Cropped
C31_Witness ==
    /\ Constructed
    /\ last.op = "filter"
    /\ last.err = "ok"
    /\ Len(last.indices) = PyLen(self.images)
    /\ self.cropped
    /\ self.images = self.images_filtered
    /\ self.images # self.images_cropped
    /\ \E p2 \in ReplayFilterChoices :
          /\ p2.filter_type # self.filters.filter_type
          /\ FilterAll(self.images, p2) # FilterAll(self.images_cropped, p2)

\* C32: the replay in the transform stage applies the recorded filter to every
\* index: after apply_transforms, preprocess or reset_transforms returns on a
\* dataset whose filtered flag is set, every image of Filtered and of Current
\* View is the recorded filter of the image of Cropped at its index, also at
\* the indices no filter call selected.
C32_ReplayEveryIndex ==
    (Constructed /\ last.op \in TransformOps /\ last.err = "ok" /\ self.filtered) =>
        /\ PyLen(self.images_filtered) = PyLen(self.orig_images)
        /\ PyLen(self.images) = PyLen(self.orig_images)
        /\ \A i \in 1..PyLen(self.orig_images) :
              /\ self.images_filtered.v[i] = Refilter(self, self.images_cropped.v[i])
              /\ self.images.v[i] = Refilter(self, self.images_cropped.v[i])

\* a transform stage returned after filter calls that selected the last image
\* alone: the first image is filtered in Filtered and in Current View, and
\* differs from the first image of Cropped
C32_Witness ==
    /\ Constructed
    /\ last.op \in TransformOps
    /\ last.err = "ok"
    /\ self.filtered
    /\ PyLen(self.images) > 1
    /\ self.images_filtered.v[1] # self.images_cropped.v[1]
    /\ self.images.v[1] # self.images_cropped.v[1]

\* lines 389-394 of filter: which stack the if/elif/else picks as input
FilterBranch(s) ==
    IF s.cropped THEN "Cropped"
    ELSE IF s.preprocessed THEN "Preprocessed"
    ELSE "Raw"

\* C33: at every method boundary of a constructed dataset the preprocessed
\* flag implies the cropped flag, so filter() never reads its input from
\* Preprocessed.
C33_PreprocessedImpliesCropped ==
    Constructed =>
        /\ self.preprocessed => self.cropped
        /\ FilterBranch(self) # "Preprocessed"
        /\ self.preprocessed => FilterInput(self) = self.images_cropped

\* a filter call returned on a preprocessed dataset whose Cropped stack
\* differs from Preprocessed, so the two branches would read different input
C33_Witness ==
    /\ Constructed
    /\ self.preprocessed
    /\ last.op = "filter"
    /\ last.err = "ok"
    /\ self.images_cropped # self.orig_images_preprocessed
    /\ self.orig_images_preprocessed # self.orig_images

\* C34: the stage flags are monotone: no step of a constructed dataset sets
\* the preprocessed, cropped or filtered flag back to false, and every
\* transform stage that returns on a dataset whose filtered flag is set
\* leaves a replayed Filtered stack as Current View.
C34_FlagsMonotone ==
    [][Constructed =>
          /\ self.preprocessed => self'.preprocessed
          /\ self.cropped => self'.cropped
          /\ self.filtered => self'.filtered
          /\ (self.filtered /\ last'.op \in TransformOps /\ last'.err = "ok") =>
                /\ self'.images_filtered.ndim = 3
                /\ self'.images_filtered = FilterRecorded(self, self'.images_cropped)
                /\ self'.images = self'.images_filtered]_vars

\* a reset_transforms or a repeated preprocess returned on a dataset with all
\* three flags set: the flags are still set and Current View is the replayed
\* filter, which differs from Cropped
C34_Witness ==
    /\ Constructed
    /\ last.op \in {"reset_transforms", "preprocess"}
    /\ last.after_preprocess
    /\ last.err = "ok"
    /\ self.preprocessed
    /\ self.cropped
    /\ self.filtered
    /\ self.images = self.images_filtered
    /\ self.images # self.images_cropped

\* the shapes of the images of a stack, in order
Shapes(a) == [i \in 1..PyLen(a) |-> <<Height(a.v[i]), Width(a.v[i])>>]

\* C35: in every state of a constructed dataset whose filtered flag is set,
\* Filtered is a full stack with the length and the per-image shapes of
\* Cropped and of Current View.
C35_FilteredFullStack ==
    (Constructed /\ self.filtered) =>
        /\ self.images_filtered.ndim = 3
        /\ self.images_cropped.ndim = 3
        /\ PyLen(self.images_filtered) = PyLen(self.orig_images)
        /\ Shapes(self.images_filtered) = Shapes(self.images_cropped)
        /\ Shapes(self.images_filtered) = Shapes(self.images)

\* C36: the number of images is fixed for the life of an instance: in every
\* state of a constructed dataset, len(dataset) and the number of defocus
\* values equal the number of images the constructor was given, and no step
\* changes either, whatever assignments and stage calls have happened.
C36_LengthFixed ==
    [][Constructed =>
          /\ PyLen(self.images) = PyLen(ctor)
          /\ PyLen(self'.images) = PyLen(self.images)
          /\ Len(self'.defvals.v) = Len(self.defvals.v)
          /\ PyLen(self'.orig_images) = PyLen(self.orig_images)]_vars

\* after a transform stage and a filter, an assignment of a stack of the
\* right length was accepted and replaced Current View
C36_Witness ==
    /\ Constructed
    /\ last.op = "set_images"
    /\ last.err = "ok"
    /\ ~last.mismatch
    /\ self.cropped
    /\ self.filtered
    /\ self.images # self.images_filtered
    /\ self.images # ctor
    /\ PyLen(self.images) = PyLen(ctor)

====
